---- MODULE Spec2Model ----
(***************************************************************************)
(* A model of tinyevm: the instrumentation inspector (BugInspector), the   *)
(* inspector chain, and the executor facade (TinyEVM) around an external   *)
(* EVM interpreter.  The interpreter is the environment: it fires the      *)
(* inspector hooks (step, step_end, create_end, ...) while a transaction   *)
(* started by deploy_helper / contract_call_helper is running.             *)
(*                                                                         *)
(* U256 words are modelled with WordBits bits, usize with one bit less, so *)
(* that wrap-around and failed narrowing conversions stay observable.      *)
(***************************************************************************)
EXTENDS Integers, Sequences, FiniteSets, TLC

(***************************************************************************)
(* Bounds of the model.                                                    *)
(***************************************************************************)
\* width of a machine word (U256 in the source)
WordBits == 3
\* number of account addresses; address 0 is Address::default()
NumAddr == 3
\* opcodes executed per transaction in the transaction specification
MaxSteps == 2
\* transactions started in the transaction specification
MaxTx == 2
\* add_bug calls applied on top of a pre-filled buffer
MaxAdds == 3
\* opcodes executed in the branch specification
BranchSteps == 3
\* opcodes executed in the arithmetic specification
ArithSteps == 1
\* inspectors registered in the chain
MaxInspectors == 3

(***************************************************************************)
(* Program constants.                                                      *)
(***************************************************************************)
\* bug_inspector.rs:91  "if self.heuristics.coverage.len() > 256"
CoverageCap == 256
\* bug_inspector.rs:97 / :108  "if self.bug_data.len() > 256"
BugDataCap == 256
\* bug_inspector.rs:49  the window of possibly_if_equal
PeepholeWindow == 10
\* bug.rs:221  target_address: Default::default()
ZeroAddress == 0
\* common.rs:17  the default gas limit of a transaction
TX_GAS_LIMIT == 30000000

UMax == 2^WordBits - 1
Words == 0..UMax
\* usize is narrower than U256
UsizeMax == 2^(WordBits - 1) - 1

EmptyMap == [x \in {} |-> 0]
Put(f, k, v) == [x \in (DOMAIN f) \cup {k} |-> IF x = k THEN v ELSE f[x]]
Remove(f, k) == [x \in (DOMAIN f) \ {k} |-> f[x]]

Min(a, b) == IF a < b THEN a ELSE b

(***************************************************************************)
(* instrument/bug.rs : BugType, Bug, MissedBranch, Heuristics,             *)
(* InstrumentConfig                                                        *)
(***************************************************************************)
\* BugType variants; x and y carry the variant's fields (0 when it has none)
BugType(kind, x, y) == [kind |-> kind, x |-> x, y |-> y]

Bug(bug_type, opcode, position, address_index) ==
    [bug_type |-> bug_type, opcode |-> opcode, position |-> position,
     address_index |-> address_index]

MissedBranch(prev_pc, dest_pc, cond, distance, address_index) ==
    [prev_pc |-> prev_pc, dest_pc |-> dest_pc, cond |-> cond,
     distance |-> distance, address_index |-> address_index]

DefaultHeuristics ==
    [skip |-> TRUE, coverage |-> <<>>, distance |-> UMax,
     missed_branches |-> <<>>, sha3_mapping |-> EmptyMap,
     seen_addresses |-> <<>>]

DefaultInstrumentConfig ==
    [pcs_by_address |-> TRUE, heuristics |-> TRUE,
     record_branch_for_target_only |-> FALSE,
     target_address |-> ZeroAddress, record_sha3_mapping |-> TRUE]

\* Heuristics::record_sha3_mapping
record_sha3_mapping(h, input, output) ==
    [h EXCEPT !.sha3_mapping = Put(h.sha3_mapping, output, input)]

\* record_missed_branch that compares the program counters only with the
\* last entry
record_missed_branch_last_only(h, prev_pc, dest_pc, cond, address_index) ==
    LET distance == h.distance
        n == Len(h.missed_branches)
    IN  IF /\ n > 0
           /\ h.missed_branches[n].prev_pc = prev_pc
           /\ h.missed_branches[n].dest_pc = dest_pc
           /\ h.missed_branches[n].distance = distance
        THEN h
        ELSE [h EXCEPT !.missed_branches =
                 Append(@, MissedBranch(prev_pc, dest_pc, cond, distance, address_index))]

\* Heuristics::record_missed_branch
record_missed_branch(h, prev_pc, dest_pc, cond, address_index) ==
    LET distance == h.distance IN
    IF \E i \in 1..Len(h.missed_branches) :
          /\ h.missed_branches[i].prev_pc = prev_pc
          /\ h.missed_branches[i].dest_pc = dest_pc
          /\ h.missed_branches[i].distance = distance
    THEN h
    ELSE [h EXCEPT !.missed_branches =
             Append(@, MissedBranch(prev_pc, dest_pc, cond, distance, address_index))]

(***************************************************************************)
(* instrument/bug_inspector.rs : BugInspector                              *)
(***************************************************************************)
DefaultBugInspector ==
    [create_address_overrides |-> EmptyMap,
     bug_data |-> <<>>,
     heuristics |-> DefaultHeuristics,
     pcs_by_address |-> {},
     instrument_config |-> DefaultInstrumentConfig,
     created_addresses |-> <<>>,
     managed_addresses |-> EmptyMap,
     inputs |-> <<>>,
     opcode |-> "NONE",
     pc |-> 0,
     step_index |-> 0,
     last_index_sub |-> 0,
     last_index_eq |-> 0]

inc_step_index(insp) == [insp EXCEPT !.step_index = @ + 1]

\* possibly_if_equal looking at the last SUB only
possibly_if_equal_sub_only(insp) ==
    insp.step_index < insp.last_index_sub + PeepholeWindow

possibly_if_equal(insp) ==
    /\ insp.step_index < insp.last_index_sub + PeepholeWindow
    /\ insp.step_index > insp.last_index_eq + PeepholeWindow

\* position of the first element equal to address, 0 when there is none
Position(seq, address) ==
    IF \E i \in 1..Len(seq) : seq[i] = address
    THEN CHOOSE i \in 1..Len(seq) :
            seq[i] = address /\ \A j \in 1..(i - 1) : seq[j] # address
    ELSE 0

\* record_seen_address without the push of the target onto an empty list
record_seen_address_no_anchor(insp, address) ==
    LET cfg == insp.instrument_config
        seen1 == insp.heuristics.seen_addresses
        with(s) == [insp EXCEPT !.heuristics.seen_addresses = s]
    IN  IF cfg.record_branch_for_target_only /\ cfg.target_address = address
        THEN [insp |-> with(seen1), idx |-> 0]
        ELSE IF Position(seen1, address) # 0
             THEN [insp |-> with(seen1), idx |-> Position(seen1, address) - 1]
             ELSE [insp |-> with(Append(seen1, address)), idx |-> Len(seen1)]

\* record_seen_address returning the length after the push as the index
record_seen_address_length(insp, address) ==
    LET cfg == insp.instrument_config
        seen0 == insp.heuristics.seen_addresses
        seen1 == IF cfg.record_branch_for_target_only /\ seen0 = <<>>
                 THEN <<cfg.target_address>>
                 ELSE seen0
        with(s) == [insp EXCEPT !.heuristics.seen_addresses = s]
    IN  IF cfg.record_branch_for_target_only /\ cfg.target_address = address
        THEN [insp |-> with(seen1), idx |-> 0]
        ELSE IF Position(seen1, address) # 0
             THEN [insp |-> with(seen1), idx |-> Position(seen1, address) - 1]
             ELSE [insp |-> with(Append(seen1, address)), idx |-> Len(seen1) + 1]

\* BugInspector::record_seen_address; idx is the returned (0-based) index
record_seen_address(insp, address) ==
    LET cfg == insp.instrument_config
        seen0 == insp.heuristics.seen_addresses
        seen1 == IF cfg.record_branch_for_target_only /\ seen0 = <<>>
                 THEN <<cfg.target_address>>
                 ELSE seen0
        with(s) == [insp EXCEPT !.heuristics.seen_addresses = s]
    IN  IF cfg.record_branch_for_target_only /\ cfg.target_address = address
        THEN [insp |-> with(seen1), idx |-> 0]
        ELSE IF Position(seen1, address) # 0
             THEN [insp |-> with(seen1), idx |-> Position(seen1, address) - 1]
             ELSE [insp |-> with(Append(seen1, address)), idx |-> Len(seen1)]

\* BugInspector::record_pc
record_pc(insp, address, pc) ==
    [insp EXCEPT !.pcs_by_address = @ \cup {<<address, pc>>}]

\* the Jumpi arm of add_bug dropping the newest entry of a full deque
add_bug_jumpi_drop_newest(insp, dest) ==
    IF insp.instrument_config.heuristics
    THEN LET pushed == Append(insp.heuristics.coverage, dest)
         IN  [insp EXCEPT !.heuristics.coverage =
                 IF Len(pushed) > CoverageCap
                 THEN SubSeq(pushed, 1, CoverageCap)
                 ELSE pushed]
    ELSE insp

\* the Jumpi arm of add_bug recording coverage whatever the configuration
add_bug_jumpi_unconditional(insp, dest) ==
    LET pushed == Append(insp.heuristics.coverage, dest)
    IN  [insp EXCEPT !.heuristics.coverage =
            IF Len(pushed) > CoverageCap THEN Tail(pushed) ELSE pushed]

\* the Jumpi arm of BugInspector::add_bug
add_bug_jumpi(insp, dest) ==
    IF insp.instrument_config.heuristics
    THEN LET pushed == Append(insp.heuristics.coverage, dest)
         IN  [insp EXCEPT !.heuristics.coverage =
                 IF Len(pushed) > CoverageCap THEN Tail(pushed) ELSE pushed]
    ELSE insp

\* the Sload / Sstore arms of BugInspector::add_bug
add_bug_storage(insp, bug) ==
    LET kept == IF Len(insp.bug_data) > BugDataCap
                THEN Tail(insp.bug_data)
                ELSE insp.bug_data
    IN  [insp EXCEPT !.bug_data = Append(kept, bug)]

\* BugInspector::add_bug
add_bug(insp, bug) ==
    CASE bug.bug_type.kind = "Jumpi" -> add_bug_jumpi(insp, bug.bug_type.x)
      [] bug.bug_type.kind \in {"Sload", "Sstore"} -> add_bug_storage(insp, bug)
      [] OTHER -> [insp EXCEPT !.bug_data = Append(@, bug)]

(***************************************************************************)
(* U256 arithmetic as the source uses it                                   *)
(***************************************************************************)
wrapping_add(a, b) == (a + b) % (UMax + 1)
overflowing_sub(a, b) == (a - b + UMax + 1) % (UMax + 1)
saturating_add(a, b) == Min(a + b, UMax)
wrapping_mul(a, b) == (a * b) % (UMax + 1)
\* a word read as a two's-complement number
Signed(w) == IF w > UMax \div 2 THEN w - (UMax + 1) ELSE w

\* i256_diff: the magnitude of the difference of two words read as signed
\* numbers
i256_diff(a, b) ==
    IF Signed(a) >= Signed(b) THEN Signed(a) - Signed(b) ELSE Signed(b) - Signed(a)
\* Address::from_slice(&bytes[12..]): the low-order part of a word
WordToAddress(w) == w % NumAddr

\* fn mul_overflow
mul_overflow(a, b) ==
    IF a = 0 \/ b = 0 THEN FALSE ELSE a > UMax \div b

\* the while loop of fn exp_overflow: "yes", "no", or "panic" when the
\* division max_value / a is a division by zero
RECURSIVE exp_overflow_loop(_, _, _, _, _)
exp_overflow_loop(a, b, r, result, i) ==
    IF i < b
    THEN IF a = 0
         THEN "panic"
         ELSE IF result > UMax \div a
              THEN "yes"
              ELSE exp_overflow_loop(a, b, r, wrapping_mul(result, a), i + 1)
    ELSE IF result # r THEN "yes" ELSE "no"

\* fn exp_overflow
exp_overflow(a, b, r) ==
    IF b = 0
    THEN (IF r # 1 THEN "yes" ELSE "no")
    ELSE exp_overflow_loop(a, b, r, 1, 0)

(***************************************************************************)
(* The interpreter's opcodes, as far as the inspector looks at them        *)
(***************************************************************************)
Interesting ==
    {"JUMPI", "CALL", "CALLCODE", "DELEGATECALL", "STATICCALL", "SSTORE",
     "SLOAD", "ADD", "SUB", "MUL", "DIV", "SDIV", "MOD", "SMOD", "EXP", "LT",
     "SLT", "GT", "SGT", "EQ", "AND", "ADDMOD", "MULMOD", "KECCAK256"}

\* OpCode::inputs(): the number of stack items the opcode pops
OpInputs(op) ==
    CASE op \in {"CALL", "CALLCODE"} -> 7
      [] op \in {"DELEGATECALL", "STATICCALL"} -> 6
      [] op \in {"ADDMOD", "MULMOD"} -> 3
      [] op = "SLOAD" -> 1
      [] OTHER -> 2

\* U256::pow: the power modulo 2^WordBits
RECURSIVE wrapping_pow(_, _)
wrapping_pow(a, b) == IF b = 0 THEN 1 ELSE wrapping_mul(a, wrapping_pow(a, b - 1))

\* the word the interpreter leaves on top of the stack for the opcodes whose
\* result the inspector reads; env is the word the environment supplies for
\* the others (a loaded slot, a created address, the item below the operands)
Exec(op, stack, env) ==
    LET a == stack[1]
        b == stack[2]
    IN  CASE op = "ADD" -> wrapping_add(a, b)
          [] op = "MUL" -> wrapping_mul(a, b)
          [] op = "SUB" -> overflowing_sub(a, b)
          [] op = "EXP" -> wrapping_pow(a, b)
          [] op = "LT" -> IF a < b THEN 1 ELSE 0
          [] op = "GT" -> IF a > b THEN 1 ELSE 0
          [] op = "SLT" -> IF Signed(a) < Signed(b) THEN 1 ELSE 0
          [] op = "SGT" -> IF Signed(a) > Signed(b) THEN 1 ELSE 0
          [] op = "EQ" -> IF a = b THEN 1 ELSE 0
          [] OTHER -> env

(***************************************************************************)
(* impl Inspector for BugInspector                                         *)
(***************************************************************************)
\* BugInspector::step
step(insp, op, pc, stack) ==
    LET i1 == [insp EXCEPT !.opcode = op, !.pc = pc]
        i2 == IF op = "EQ" THEN [i1 EXCEPT !.last_index_eq = i1.step_index] ELSE i1
        i3 == IF op = "SUB" THEN [i2 EXCEPT !.last_index_sub = i2.step_index] ELSE i2
        i4 == [i3 EXCEPT !.inputs =
                  IF op \in Interesting
                  THEN SubSeq(stack, 1, Min(OpInputs(op), Len(stack)))
                  ELSE <<>>]
    IN  inc_step_index(i4)

\* update_heuritics! recording the branches of every contract
update_heuristics_any_address(insp, address, prev_pc, dest_pc, cond, address_index) ==
    LET i1 == [insp EXCEPT !.heuristics =
                  record_missed_branch(@, prev_pc, dest_pc, cond, address_index)]
        target == IF cond THEN dest_pc ELSE prev_pc + 1
    IN  add_bug(i1, Bug(BugType("Jumpi", target, 0), "JUMPI", prev_pc, address_index))

\* macro update_heuritics! of the JUMPI arm
update_heuristics(insp, address, prev_pc, dest_pc, cond, address_index) ==
    IF \/ ~insp.instrument_config.record_branch_for_target_only
       \/ address = insp.instrument_config.target_address
    THEN LET i1 == [insp EXCEPT !.heuristics =
                       record_missed_branch(@, prev_pc, dest_pc, cond, address_index)]
             target == IF cond THEN dest_pc ELSE prev_pc + 1
         IN  add_bug(i1, Bug(BugType("Jumpi", target, 0), "JUMPI", prev_pc, address_index))
    ELSE insp

\* "let mut half = U256::MAX; half.set_bit(31, false)": MAX with one bit below
\* the top bit cleared (bit 31 of 256, here the bit below the top bit)
PeepholeHalf == UMax - 2^(WordBits - 2)

\* the JUMPI arm of step_end
step_end_jumpi(insp, address, address_index) ==
    IF Len(insp.inputs) >= 2
    THEN LET counter == insp.inputs[1]
             cond == insp.inputs[2]
             i1 == IF possibly_if_equal(insp)
                   THEN [insp EXCEPT !.heuristics.distance =
                            IF cond > PeepholeHalf THEN UMax - cond + 1 ELSE cond]
                   ELSE insp
         IN  IF counter > UsizeMax
             THEN [insp |-> i1, fault |-> TRUE]
             ELSE [insp |-> update_heuristics(i1, address, insp.pc, counter,
                                              cond # 0, address_index),
                   fault |-> FALSE]
    ELSE [insp |-> insp, fault |-> FALSE]

\* the CALL / CALLCODE / DELEGATECALL / STATICCALL arm of step_end
step_end_call(insp, op, address_index) ==
    LET k == IF op \in {"CALL", "CALLCODE"} THEN 5 ELSE 4 IN
    IF Len(insp.inputs) >= k
    THEN LET in_len == insp.inputs[k]
             callee == WordToAddress(insp.inputs[2])
         IN  IF in_len > UsizeMax
             THEN [insp |-> insp, fault |-> TRUE]
             ELSE [insp |-> add_bug(insp, Bug(BugType("Call", in_len, callee), op,
                                              insp.pc, address_index)),
                   fault |-> FALSE]
    ELSE [insp |-> insp, fault |-> FALSE]

\* the comparison arms of step_end: the branch distance, if one is computed
Distance(op, a, b, r) ==
    CASE op = "LT" -> IF a >= b THEN saturating_add(overflowing_sub(a, b), 1)
                      ELSE overflowing_sub(b, a)
      [] op = "GT" -> IF a >= b THEN overflowing_sub(a, b)
                      ELSE saturating_add(overflowing_sub(b, a), 1)
      [] op = "SLT" -> LET d == IF a >= b THEN overflowing_sub(a, b)
                                ELSE overflowing_sub(b, a)
                       IN  IF r = 0 THEN saturating_add(d, 1) ELSE d
      [] op = "SGT" -> LET d == i256_diff(a, b)
                       IN  IF r = 0 THEN saturating_add(d, 1) ELSE d
      [] op = "EQ" -> IF r # 0 THEN 1
                      ELSE IF a > b THEN overflowing_sub(a, b)
                           ELSE overflowing_sub(b, a)

\* the ADD arm's test reporting an operand that the result merely equals
add_overflowed_or_equal(a, b, r) == r <= a \/ r <= b

\* the test of the ADD arm of step_end
add_overflowed(a, b, r) == r < a \/ r < b

\* BugInspector::step_end.  address is interp.contract().target_address, top
\* is interp.stack().peek(0) after the opcode ran, mem is the memory range a
\* KECCAK256 hashed.  fault: the hook panicked (an unwrap or a division).
step_end(insp, address, top, mem) ==
    LET seen == record_seen_address(insp, address)
        address_index == seen.idx
        opcode == insp.opcode
        pc == insp.pc
        i0 == IF insp.instrument_config.pcs_by_address
              THEN record_pc(seen.insp, address, pc)
              ELSE seen.insp
        inputs == i0.inputs
        two == Len(inputs) >= 2
        a == inputs[1]
        b == inputs[2]
        ok(i) == [insp |-> i, fault |-> FALSE]
        emit(kind) == ok(add_bug(i0, Bug(BugType(kind, 0, 0), opcode, pc, address_index)))
    IN  CASE opcode = "ADD" ->
               IF two /\ add_overflowed(a, b, top) THEN emit("IntegerOverflow") ELSE ok(i0)
          [] opcode = "MUL" ->
               IF two /\ mul_overflow(a, b) THEN emit("IntegerOverflow") ELSE ok(i0)
          [] opcode = "SUB" ->
               IF two /\ a < b THEN emit("IntegerSubUnderflow") ELSE ok(i0)
          [] opcode \in {"SMOD", "MOD"} ->
               IF two /\ b = 0 THEN emit("IntegerModByZero") ELSE ok(i0)
          [] opcode \in {"DIV", "SDIV"} ->
               IF two /\ b = 0 THEN emit("IntegerDivByZero") ELSE ok(i0)
          [] opcode \in {"ADDMOD", "MULMOD"} ->
               IF Len(inputs) >= 3 /\ inputs[3] = 0
               THEN emit("IntegerModByZero") ELSE ok(i0)
          [] opcode = "EXP" ->
               IF two
               THEN LET e == exp_overflow(a, b, top)
                    IN  IF e = "panic" THEN [insp |-> i0, fault |-> TRUE]
                        ELSE IF e = "yes" THEN emit("IntegerOverflow") ELSE ok(i0)
               ELSE ok(i0)
          [] opcode \in {"LT", "GT", "SLT", "SGT", "EQ"} ->
               IF two
               THEN ok([i0 EXCEPT !.heuristics.distance = Distance(opcode, a, b, top)])
               ELSE ok(i0)
          [] opcode = "SSTORE" ->
               IF two
               THEN ok(add_bug(i0, Bug(BugType("Sstore", a, b), opcode, pc, address_index)))
               ELSE ok(i0)
          [] opcode = "SLOAD" ->
               IF Len(inputs) >= 1
               THEN ok(add_bug(i0, Bug(BugType("Sload", a, 0), opcode, pc, address_index)))
               ELSE ok(i0)
          [] opcode = "ORIGIN" -> emit("TxOriginDependency")
          [] opcode \in {"CALL", "CALLCODE", "DELEGATECALL", "STATICCALL"} ->
               step_end_call(i0, opcode, address_index)
          [] opcode = "JUMPI" -> step_end_jumpi(i0, address, address_index)
          [] opcode \in {"BLOBHASH", "COINBASE", "DIFFICULTY"} -> emit("BlockValueDependency")
          [] opcode = "TIMESTAMP" -> emit("TimestampDependency")
          [] opcode = "NUMBER" -> emit("BlockNumberDependency")
          [] opcode \in {"REVERT", "INVALID"} -> emit("RevertOrInvalid")
          [] opcode = "SELFDESTRUCT" -> emit("Unclassified")
          [] opcode \in {"CREATE", "CREATE2"} ->
               ok(record_seen_address(emit("Unclassified").insp, WordToAddress(top)).insp)
          [] opcode = "KECCAK256" ->
               IF i0.instrument_config.record_sha3_mapping /\ two
               THEN ok([i0 EXCEPT !.heuristics = record_sha3_mapping(@, mem, top)])
               ELSE ok(i0)
          [] OTHER -> ok(i0)

(***************************************************************************)
(* lib.rs : the facade's operations on the inspector                       *)
(***************************************************************************)
\* clear_instrumentation that leaves bug_data alone
clear_instrumentation_keep_bugs(insp) ==
    [insp EXCEPT !.created_addresses = <<>>,
                 !.heuristics = DefaultHeuristics]

\* TinyEVM::clear_instrumentation
clear_instrumentation(insp) ==
    [insp EXCEPT !.bug_data = <<>>,
                 !.created_addresses = <<>>,
                 !.heuristics = DefaultHeuristics]

\* TinyEVM::configure
configure(insp, config) == [insp EXCEPT !.instrument_config = config]

(***************************************************************************)
(* fork_db.rs : ForkDB (forking disabled), and the accounts of the EVM's   *)
(* journaled state                                                         *)
(***************************************************************************)
None == <<>>
Some(x) == <<x>>

\* keccak256 of a byte string: injective, never the byte string itself
Keccak256(bytes) == [keccak256 |-> bytes]
KECCAK_EMPTY == Keccak256(<<>>)

AccountInfo(balance, nonce, code_hash, code) ==
    [balance |-> balance, nonce |-> nonce, code_hash |-> code_hash, code |-> code]

\* AccountInfo::default()
DefaultAccountInfo == AccountInfo(0, 0, KECCAK_EMPTY, <<>>)

\* DbAccount::default()
DefaultDbAccount ==
    [info |-> DefaultAccountInfo, account_state |-> "None", storage |-> EmptyMap]

\* ForkDB::create(): no provider, forking disabled; max_fork_depth is
\* usize::MAX when TINYEVM_MAX_FORK_DEPTH is not set
DefaultForkDB ==
    [accounts |-> EmptyMap, contracts |-> EmptyMap, block_hashes |-> EmptyMap,
     fork_enabled |-> FALSE, provider |-> FALSE, remote_addresses |-> EmptyMap,
     ignored_addresses |-> {}, max_fork_depth |-> UsizeMax]

\* HashMap::entry(address).or_default()
Entry(accounts, address) ==
    IF address \in DOMAIN accounts THEN accounts[address] ELSE DefaultDbAccount

\* insert_contract taking every code for the empty code
insert_contract_always_empty(fdb, info) ==
    [db |-> fdb, info |-> [info EXCEPT !.code_hash = KECCAK_EMPTY]]

\* ForkDB::insert_contract: the info with its code hash recomputed, and the
\* contracts map
insert_contract(fdb, info) ==
    IF info.code # <<>>
    THEN LET h == Keccak256(info.code)
         IN  [db |-> [fdb EXCEPT !.contracts =
                         IF h \in DOMAIN @ THEN @ ELSE Put(@, h, info.code)],
              info |-> [info EXCEPT !.code_hash = h]]
    ELSE [db |-> fdb, info |-> [info EXCEPT !.code_hash = KECCAK_EMPTY]]

\* ForkDB::insert_account_info
insert_account_info(fdb, address, info) ==
    LET ic == insert_contract(fdb, info)
    IN  [ic.db EXCEPT !.accounts =
            Put(@, address, [Entry(@, address) EXCEPT !.info = ic.info])]

\* ForkDB::basic with forking disabled: the cached info, or None
basic(fdb, address) ==
    IF address \in DOMAIN fdb.accounts
    THEN Some(fdb.accounts[address].info)
    ELSE None

\* an account of the journaled state; status holds the flags Touched,
\* Created and SelfDestructed
JournalAccount(info, storage, status) ==
    [info |-> info, storage |-> storage, status |-> status]

\* the loop body of commit marking every touched account that was not
\* newly created as Touched
commit_account_not_sticky(fdb, address, account) ==
    IF "Touched" \notin account.status
    THEN fdb
    ELSE IF "SelfDestructed" \in account.status
    THEN [fdb EXCEPT !.accounts =
             Put(@, address, [info |-> DefaultAccountInfo,
                              account_state |-> "NotExisting",
                              storage |-> EmptyMap])]
    ELSE LET ic == insert_contract(fdb, account.info)
             old == Entry(ic.db.accounts, address)
             is_newly_created == "Created" \in account.status
             kept == IF is_newly_created THEN EmptyMap ELSE old.storage
             merged == [k \in (DOMAIN kept) \cup (DOMAIN account.storage) |->
                          IF k \in DOMAIN account.storage
                          THEN account.storage[k]
                          ELSE kept[k]]
         IN  [ic.db EXCEPT !.accounts =
                 Put(@, address, [info |-> ic.info,
                                  account_state |-> IF is_newly_created
                                                    THEN "StorageCleared"
                                                    ELSE "Touched",
                                  storage |-> merged])]

\* one account of the batch ForkDB::commit receives
commit_account(fdb, address, account) ==
    IF "Touched" \notin account.status
    THEN fdb
    ELSE IF "SelfDestructed" \in account.status
    THEN [fdb EXCEPT !.accounts =
             Put(@, address, [info |-> DefaultAccountInfo,
                              account_state |-> "NotExisting",
                              storage |-> EmptyMap])]
    ELSE LET ic == insert_contract(fdb, account.info)
             old == Entry(ic.db.accounts, address)
             is_newly_created == "Created" \in account.status
             state == IF is_newly_created \/ old.account_state = "StorageCleared"
                      THEN "StorageCleared"
                      ELSE "Touched"
             kept == IF is_newly_created THEN EmptyMap ELSE old.storage
             merged == [k \in (DOMAIN kept) \cup (DOMAIN account.storage) |->
                          IF k \in DOMAIN account.storage
                          THEN account.storage[k]
                          ELSE kept[k]]
         IN  [ic.db EXCEPT !.accounts =
                 Put(@, address, [info |-> ic.info, account_state |-> state,
                                  storage |-> merged])]

\* ForkDB::commit: the batch, one account after the other
RECURSIVE commit(_, _)
commit(fdb, changes) ==
    IF DOMAIN changes = {}
    THEN fdb
    ELSE LET address == CHOOSE x \in DOMAIN changes : TRUE
         IN  commit(commit_account(fdb, address, changes[address]),
                    Remove(changes, address))

(***************************************************************************)
(* The EVM around the inspector: addresses, constructors, create frames    *)
(***************************************************************************)
\* Address::create(nonce): one address per (owner, nonce), none of them one
\* of the plain addresses 0..NumAddr-1
CreateAddress(owner, nonce) == NumAddr * (nonce + 1) + owner

\* deployment bytecode: whether its constructor returns, and the runtime
\* code it returns
Bytecode(ok, runtime) == [ok |-> ok, runtime |-> runtime]
NoBytecode == Bytecode(FALSE, <<>>)

CreateOutcome(result, address) == [result |-> result, address |-> address]
NoOutcome == CreateOutcome("None", None)

\* the journaled state's copy of an account, loaded through ForkDB::basic
LoadAccount(fdb, address) ==
    IF basic(fdb, address) = None
    THEN JournalAccount(DefaultAccountInfo, EmptyMap, {})
    ELSE JournalAccount(basic(fdb, address)[1], EmptyMap, {})

\* the caller of a transaction, its nonce bumped
BumpedCaller(fdb, caller) ==
    LET acc == LoadAccount(fdb, caller)
    IN  [acc EXCEPT !.info.nonce = @ + 1, !.status = {"Touched"}]

\* revm's create frame refuses an address that holds code or a nonce
IsCollision(fdb, address) ==
    LET acc == LoadAccount(fdb, address)
    IN  acc.info.code_hash # KECCAK_EMPTY \/ acc.info.nonce # 0

\* the journaled state when the constructor starts to run at `created`
CreateFrameState(fdb, caller, created) ==
    LET st == Put(EmptyMap, caller, BumpedCaller(fdb, caller))
        acc == [LoadAccount(fdb, created) EXCEPT
                   !.info.nonce = 1, !.status = {"Touched", "Created"}]
    IN  Put(st, created, acc)

\* the journaled state when the constructor has returned (the code is
\* installed) or reverted (the checkpoint is rolled back)
CreateReturnState(state, created, bytecode) ==
    IF bytecode.ok
    THEN [state EXCEPT ![created].info.code = bytecode.runtime,
                       ![created].info.code_hash = Keccak256(bytecode.runtime)]
    ELSE [state EXCEPT ![created].info.nonce = 0, ![created].status = {}]

\* BugInspector::create_end: the journaled state and the outcome it returns
create_end(insp, state, outcome) ==
    IF /\ outcome.address # None
       /\ outcome.address[1] \in DOMAIN insp.create_address_overrides
    THEN LET address == outcome.address[1]
             override_address == insp.create_address_overrides[address]
         IN  [state |-> IF address \in DOMAIN state
                        THEN Put(Remove(state, address), override_address, state[address])
                        ELSE state,
              outcome |-> CreateOutcome(outcome.result, Some(override_address))]
    ELSE [state |-> state, outcome |-> outcome]

(***************************************************************************)
(* chain_inspector.rs : ChainInspector                                     *)
(***************************************************************************)
\* an inspector of the chain, by the hooks for which it returns an outcome
Inspector(call, create, eofcreate) ==
    [call |-> call, create |-> create, eofcreate |-> eofcreate]

\* ChainInspector::add
add(inspectors, inspector) == Append(inspectors, inspector)

\* the loop running every inspector and returning the last present outcome
RECURSIVE for_each_inspector_last(_, _, _, _, _)
for_each_inspector_last(inspectors, hook, i, invoked, found) ==
    IF i > Len(inspectors)
    THEN [invoked |-> invoked, result |-> found]
    ELSE for_each_inspector_last(inspectors, hook, i + 1, Append(invoked, i),
                                 IF inspectors[i][hook] THEN <<i>> ELSE found)

\* "for inspector in self.inspectors.iter_mut()" of call, create and
\* eofcreate, from the i-th inspector on: the inspectors invoked so far and
\* the outcome returned, the i-th inspector's outcome being <<i>>
RECURSIVE for_each_inspector(_, _, _, _, _)
for_each_inspector(inspectors, hook, i, invoked, found) ==
    IF i > Len(inspectors)
    THEN [invoked |-> invoked, result |-> found]
    ELSE IF inspectors[i][hook]
         THEN [invoked |-> Append(invoked, i), result |-> <<i>>]
         ELSE for_each_inspector(inspectors, hook, i + 1, Append(invoked, i), found)

\* ChainInspector::call
call(inspectors) == for_each_inspector(inspectors, "call", 1, <<>>, <<>>)

\* ChainInspector::create
create(inspectors) == for_each_inspector(inspectors, "create", 1, <<>>, <<>>)

\* ChainInspector::eofcreate
eofcreate(inspectors) == for_each_inspector(inspectors, "eofcreate", 1, <<>>, <<>>)

(***************************************************************************)
(* The state                                                               *)
(***************************************************************************)
(***************************************************************************)
(* logs.rs : the LogInspector, the thread-local CALL_DEPTH and the         *)
(* thread-local id COUNTER (kept here as the field id)                     *)
(***************************************************************************)
\* the inputs of a call frame the hooks read
CallInputs(scheme, caller, target_address, bytecode_address) ==
    [scheme |-> scheme, caller |-> caller, target_address |-> target_address,
     bytecode_address |-> bytecode_address]

\* the outcome of a call frame: the interpreter's result code and the output
CallOutcome(result, output) == [result |-> result, output |-> output]

\* LogInspector::call leaving CALL_DEPTH as it finds it
LogInspector_call_same_depth(insp, depth, inputs) ==
    IF insp.trace_enabled
    THEN [insp |-> [insp EXCEPT !.id = @ + 1,
                       !.traces = Append(@, [id |-> insp.id, from |-> inputs.caller,
                                             to |-> inputs.target_address,
                                             depth |-> depth, return_data |-> None,
                                             is_static |-> FALSE, status |-> None])],
          depth |-> depth,
          outcome |-> None]
    ELSE [insp |-> insp, depth |-> depth, outcome |-> None]

\* LogInspector::call, with the CALL_DEPTH it finds: the inspector and the
\* CALL_DEPTH afterwards; the hook never supplies an outcome
LogInspector_call(insp, depth, inputs) ==
    IF insp.trace_enabled
    THEN LET is_static == inputs.scheme \notin {"Call", "CallCode"}
             delegated == inputs.scheme \in {"DelegateCall", "CallCode"}
             trace == [id |-> insp.id,
                       from |-> IF delegated THEN inputs.target_address
                                ELSE inputs.caller,
                       to |-> IF delegated THEN inputs.bytecode_address
                              ELSE inputs.target_address,
                       depth |-> depth,
                       return_data |-> None,
                       is_static |-> is_static,
                       status |-> None]
         IN  [insp |-> [insp EXCEPT !.id = @ + 1, !.traces = Append(@, trace)],
              depth |-> depth + 1,
              outcome |-> None]
    ELSE [insp |-> insp, depth |-> depth, outcome |-> None]

\* LogInspector::call_end.  CALL_DEPTH - 1 at depth 0 panics, or wraps to a
\* depth no trace has, and then the expect panics
LogInspector_call_end(insp, depth, result) ==
    IF insp.trace_enabled
    THEN LET found == IF depth = 0
                      THEN {}
                      ELSE {i \in 1..Len(insp.traces) : insp.traces[i].depth = depth - 1}
         IN  IF found = {}
             THEN [insp |-> insp, depth |-> depth, outcome |-> result, fault |-> TRUE]
             ELSE LET i == CHOOSE j \in found : \A k \in found : j <= k
                  IN  [insp |-> [insp EXCEPT
                                    !.traces[i].return_data = Some(result.output),
                                    !.traces[i].status = Some(result.result)],
                       depth |-> depth - 1,
                       outcome |-> result,
                       fault |-> FALSE]
    ELSE [insp |-> insp, depth |-> depth, outcome |-> result, fault |-> FALSE]

\* LogInspector::log recording the event whether or not tracing is enabled
LogInspector_log_always(insp, depth, evm_log) ==
    [insp EXCEPT !.id = @ + 1,
                 !.logs = Append(@, [id |-> insp.id, depth |-> depth,
                                     address |-> evm_log.address,
                                     topics |-> evm_log.topics,
                                     data |-> evm_log.data])]

\* LogInspector::log
LogInspector_log(insp, depth, evm_log) ==
    IF ~insp.trace_enabled
    THEN insp
    ELSE [insp EXCEPT !.id = @ + 1,
                      !.logs = Append(@, [id |-> insp.id, depth |-> depth,
                                          address |-> evm_log.address,
                                          topics |-> evm_log.topics,
                                          data |-> evm_log.data])]

(***************************************************************************)
(* The executor                                                            *)
(***************************************************************************)
VARIABLES
    bug_inspector,  \* the BugInspector of the executor
    db,             \* the ForkDB of the executor
    journal,        \* the journaled state of the running transaction
    tx,             \* the transaction deploy_helper / contract_call_helper runs
    interp,         \* the interpreter between the step and step_end hooks
    response,       \* the Response the last helper returned, until the next call
    fault,          \* a hook panicked
    tx_count,       \* transactions started so far
    tx_ops,         \* history: the opcodes the running transaction executed
    deploys,        \* history: the last two deploy_helper calls and results
    tx_config,      \* history: the configuration the last transaction began with
    added,          \* history: the bugs handed to add_bug, oldest first
    chain,          \* the inspector chain and the hook it is dispatching
    snapshots,      \* the per-account snapshots of the executor
    call_depth,     \* the thread-local CALL_DEPTH
    log_inspector,  \* the LogInspector of the executor
    provider_log,   \* history: the requests sent to the fork provider
    ret,            \* the value the last database or provider operation returned
    frames,         \* the call frames the EVM has entered and not yet ended
    cache,          \* the responses the provider cache has stored
    global_snapshot, \* the global snapshots of the executor, by id
    tx_gas_limit    \* the default gas limit of the executor

vars == <<bug_inspector, db, journal, tx, interp, response, fault, tx_count,
          tx_ops, deploys, tx_config, added, chain, snapshots, call_depth,
          log_inspector, provider_log, ret, frames, cache, global_snapshot,
          tx_gas_limit>>

IdleTx ==
    [phase |-> "idle", kind |-> "none", caller |-> ZeroAddress,
     address |-> ZeroAddress, bytecode |-> NoBytecode, force |-> None,
     outcome |-> NoOutcome, gas_limit |-> TX_GAS_LIMIT]

IdleInterp == [phase |-> "fetch", address |-> ZeroAddress, top |-> 0, mem |-> 0]

NoResponse ==
    [kind |-> "none", success |-> FALSE, exit_reason |-> "none", data |-> None,
     bug_data |-> <<>>, heuristics |-> DefaultHeuristics, seen_pcs |-> {},
     events |-> <<>>, traces |-> <<>>]

\* LogInspector::default()
DefaultLogInspector ==
    [trace_enabled |-> FALSE, traces |-> <<>>, logs |-> <<>>, id |-> 0]

\* what the last operation on the database returned: the operation, its
\* arguments, Ok / Err / panic, and the value; nothing has been returned yet
NoReturn == [op |-> "none", args |-> <<>>, kind |-> "none", value |-> 0]

\* no hook is being dispatched through the chain
IdleChain == [inspectors |-> <<>>, hook |-> "none", invoked |-> <<>>, result |-> <<>>]

\* the owner account TinyEVM::new_instance installs
DEFAULT_BALANCE == UMax
OwnerInfo == AccountInfo(DEFAULT_BALANCE, 0, KECCAK_EMPTY, <<>>)

\* TinyEVM::new_instance: the executor after construction, its owner is
\* address 0
Init ==
    /\ bug_inspector = DefaultBugInspector
    /\ db = insert_account_info(DefaultForkDB, ZeroAddress, OwnerInfo)
    /\ journal = EmptyMap
    /\ tx = IdleTx
    /\ interp = IdleInterp
    /\ response = NoResponse
    /\ fault = FALSE
    /\ tx_count = 0
    /\ tx_ops = <<>>
    /\ deploys = <<>>
    /\ tx_config = DefaultInstrumentConfig
    /\ added = <<>>
    /\ chain = IdleChain
    /\ snapshots = EmptyMap
    /\ call_depth = 0
    /\ log_inspector = DefaultLogInspector
    /\ provider_log = <<>>
    /\ ret = NoReturn
    /\ frames = <<>>
    /\ cache = EmptyMap
    /\ global_snapshot = EmptyMap
    /\ tx_gas_limit = TX_GAS_LIMIT

(***************************************************************************)
(* The facade's transactions                                               *)
(***************************************************************************)
\* TinyEVM::configure
Configure(config) ==
    /\ tx.phase = "idle"
    /\ config # bug_inspector.instrument_config
    /\ bug_inspector' = configure(bug_inspector, config)
    /\ UNCHANGED <<db, journal, tx, interp, response, fault, tx_count, tx_ops, deploys, tx_config, added, chain, snapshots, call_depth,
                   log_inspector, provider_log, ret, frames, cache,
                   global_snapshot, tx_gas_limit>>

\* TinyEVM::deploy_helper up to the first hook of transact_commit: the
\* per-transaction reset, the override, and the EVM's create frame
DeployHelperBegin(owner, bytecode, gas_limit, force_address) ==
    /\ tx.phase = "idle"
    /\ tx_count < MaxTx
    /\ LET nonce == IF owner \in DOMAIN db.accounts
                    THEN db.accounts[owner].info.nonce
                    ELSE 0
           address == CreateAddress(owner, nonce)
           cleared == [clear_instrumentation(bug_inspector) EXCEPT !.pcs_by_address = {}]
           collision == IsCollision(db, address)
       IN  /\ bug_inspector' =
                 IF force_address # None
                 THEN [cleared EXCEPT !.create_address_overrides =
                          Put(@, address, force_address[1])]
                 ELSE cleared
           /\ journal' = IF collision
                         THEN Put(EmptyMap, owner, BumpedCaller(db, owner))
                         ELSE CreateFrameState(db, owner, address)
           /\ tx' = [phase |-> IF collision THEN "done" ELSE "exec",
                     kind |-> "deploy", caller |-> owner, address |-> address,
                     bytecode |-> bytecode, force |-> force_address,
                     outcome |-> IF collision
                                 THEN CreateOutcome("CreateCollision", None)
                                 ELSE NoOutcome,
                     gas_limit |-> IF gas_limit # None THEN gas_limit[1]
                                   ELSE tx_gas_limit]
    /\ interp' = IdleInterp
    /\ response' = NoResponse
    /\ tx_count' = tx_count + 1
    /\ tx_ops' = <<>>
    /\ tx_config' = bug_inspector.instrument_config
    /\ call_depth' = 0
    /\ frames' = <<>>
    /\ UNCHANGED <<db, fault, deploys, added, chain, snapshots, log_inspector,
                   provider_log, ret, cache,
                   global_snapshot, tx_gas_limit>>

\* the constructor has run: the EVM installs the code (or rolls back) and
\* fires the create_end hook, whose outcome is the transaction's
CreateEndHook ==
    /\ tx.phase = "exec"
    /\ tx.kind = "deploy"
    /\ interp.phase = "fetch"
    /\ frames = <<>>
    /\ LET state == CreateReturnState(journal, tx.address, tx.bytecode)
           outcome == CreateOutcome(IF tx.bytecode.ok THEN "Return" ELSE "Revert",
                                    Some(tx.address))
           ce == create_end(bug_inspector, state, outcome)
       IN  /\ journal' = ce.state
           /\ tx' = [tx EXCEPT !.phase = "done", !.outcome = ce.outcome]
    /\ UNCHANGED <<bug_inspector, db, interp, response, fault, tx_count, tx_ops, deploys, tx_config, added, chain, snapshots, call_depth,
                   log_inspector, provider_log, ret, frames, cache,
                   global_snapshot, tx_gas_limit>>

\* the last two entries of the deploy history
LastTwo(seq) == IF Len(seq) > 2 THEN SubSeq(seq, Len(seq) - 1, Len(seq)) ELSE seq

\* TinyEVM::deploy_helper from the return of transact_commit: the commit to
\* the ForkDB, the collision error, the snapshot of the inspector
DeployHelperEnd ==
    /\ tx.phase = "done"
    /\ tx.kind = "deploy"
    /\ LET committed == commit(db, journal)
           collision == tx.outcome.result = "CreateCollision"
           success == tx.outcome.result = "Return"
           addresses == bug_inspector.created_addresses
           resp == IF collision
                   THEN [NoResponse EXCEPT !.kind = "error",
                                           !.exit_reason = "Address collision"]
                   ELSE [kind |-> "deploy", success |-> success,
                         exit_reason |-> tx.outcome.result,
                         data |-> IF success THEN tx.outcome.address ELSE None,
                         bug_data |-> bug_inspector.bug_data,
                         heuristics |-> bug_inspector.heuristics,
                         seen_pcs |-> bug_inspector.pcs_by_address,
                         events |-> log_inspector.logs,
                         traces |-> log_inspector.traces]
       IN  /\ db' = committed
           /\ response' = resp
           /\ bug_inspector' =
                 IF ~collision /\ addresses # <<>>
                 THEN [bug_inspector EXCEPT !.managed_addresses =
                          Put(@, tx.address, addresses)]
                 ELSE bug_inspector
           /\ deploys' = LastTwo(Append(deploys,
                 [owner |-> tx.caller, bytecode |-> tx.bytecode, force |-> tx.force,
                  kind |-> resp.kind, success |-> resp.success, data |-> resp.data,
                  code_hash |-> IF tx.force # None /\ tx.force[1] \in DOMAIN committed.accounts
                                THEN Some(committed.accounts[tx.force[1]].info.code_hash)
                                ELSE None]))
    /\ journal' = EmptyMap
    /\ tx' = IdleTx
    /\ UNCHANGED <<interp, fault, tx_count, tx_ops, tx_config, added, chain, snapshots, call_depth,
                   log_inspector, provider_log, ret, frames, cache,
                   global_snapshot, tx_gas_limit>>

\* TinyEVM::contract_call_helper up to the first hook of transact_commit
ContractCallHelperBegin(contract, sender, gas_limit) ==
    /\ tx.phase = "idle"
    /\ tx_count < MaxTx
    /\ bug_inspector' = clear_instrumentation(bug_inspector)
    /\ journal' = Put(EmptyMap, sender, BumpedCaller(db, sender))
    /\ tx' = [IdleTx EXCEPT !.phase = "exec", !.kind = "call",
                            !.caller = sender, !.address = contract,
                            !.gas_limit = IF gas_limit # None THEN gas_limit[1]
                                          ELSE TX_GAS_LIMIT]
    /\ interp' = IdleInterp
    /\ response' = NoResponse
    /\ tx_count' = tx_count + 1
    /\ tx_ops' = <<>>
    /\ tx_config' = bug_inspector.instrument_config
    /\ LET inputs == CallInputs("Call", sender, contract, contract)
           hook == LogInspector_call(log_inspector, 0, inputs)
       IN  /\ log_inspector' = hook.insp
           /\ call_depth' = hook.depth
           /\ frames' = <<inputs>>
    /\ UNCHANGED <<db, fault, deploys, added, chain, snapshots, provider_log, ret, cache,
                   global_snapshot, tx_gas_limit>>

\* TinyEVM::contract_call_helper from the return of transact_commit
ContractCallHelperEnd ==
    /\ tx.phase = "exec"
    /\ tx.kind = "call"
    /\ interp.phase = "fetch"
    /\ Len(frames) = 1
    /\ LET hook == LogInspector_call_end(log_inspector, call_depth,
                                         CallOutcome("Stop", <<>>))
       IN  /\ log_inspector' = hook.insp
           /\ call_depth' = hook.depth
           /\ fault' = hook.fault
           /\ IF hook.fault
              THEN /\ tx' = [tx EXCEPT !.phase = "panicked"]
                   /\ UNCHANGED <<db, bug_inspector, response, journal>>
              ELSE /\ db' = commit(db, journal)
                   /\ bug_inspector' =
                         IF bug_inspector.created_addresses # <<>>
                         THEN [bug_inspector EXCEPT !.managed_addresses =
                                  Put(@, tx.address, bug_inspector.created_addresses)]
                         ELSE bug_inspector
                   /\ response' =
                         [kind |-> "call", success |-> TRUE, exit_reason |-> "Success",
                          data |-> None,
                          bug_data |-> bug_inspector.bug_data,
                          heuristics |-> bug_inspector.heuristics,
                          seen_pcs |-> bug_inspector.pcs_by_address,
                          events |-> hook.insp.logs,
                          traces |-> hook.insp.traces]
                   /\ journal' = EmptyMap
                   /\ tx' = IdleTx
    /\ frames' = <<>>
    /\ UNCHANGED <<interp, tx_count, tx_ops, deploys, tx_config, added, chain,
                   snapshots, provider_log, ret, cache,
                   global_snapshot, tx_gas_limit>>

(***************************************************************************)
(* The interpreter's hooks                                                 *)
(***************************************************************************)
\* one opcode the interpreter is about to run: the opcode, its program
\* counter, the stack it finds, the contract it runs in, and what the
\* environment supplies (see Exec)
Instr(op, pc, stack, address, env, mem) ==
    [op |-> op, pc |-> pc, stack |-> stack, address |-> address,
     env |-> env, mem |-> mem]

\* Inspector::step, fired before the opcode runs
StepHook(instrs, max_steps) ==
    /\ tx.phase = "exec"
    /\ interp.phase = "fetch"
    /\ Len(tx_ops) < max_steps
    /\ \E i \in instrs :
          /\ bug_inspector' = step(bug_inspector, i.op, i.pc, i.stack)
          /\ interp' = [phase |-> "executed", address |-> i.address,
                        top |-> Exec(i.op, i.stack, i.env), mem |-> i.mem]
          /\ tx_ops' = Append(tx_ops, i)
    /\ UNCHANGED <<db, journal, tx, response, fault, tx_count, deploys, tx_config, added, chain, snapshots, call_depth,
                   log_inspector, provider_log, ret, frames, cache,
                   global_snapshot, tx_gas_limit>>

\* Inspector::step_end, fired after the opcode ran; a panic of the hook
\* ends the run
StepEndHook ==
    /\ tx.phase = "exec"
    /\ interp.phase = "executed"
    /\ LET r == step_end(bug_inspector, interp.address, interp.top, interp.mem)
       IN  /\ bug_inspector' = r.insp
           /\ fault' = r.fault
           /\ tx' = IF r.fault THEN [tx EXCEPT !.phase = "panicked"] ELSE tx
    /\ interp' = [interp EXCEPT !.phase = "fetch"]
    /\ UNCHANGED <<db, journal, response, tx_count, tx_ops, deploys, tx_config, added, chain, snapshots, call_depth,
                   log_inspector, provider_log, ret, frames, cache,
                   global_snapshot, tx_gas_limit>>

(***************************************************************************)
(* The transaction specification: transactions of a few opcodes each, with *)
(* configure calls between them                                            *)
(***************************************************************************)
\* the contracts that execute opcodes
Contracts == {1, 2}

\* the configurations the caller switches between
Configs ==
    {[DefaultInstrumentConfig EXCEPT !.record_branch_for_target_only = b,
                                     !.target_address = t] :
        b \in BOOLEAN, t \in Contracts}

\* the opcodes a transaction executes
TxInstrs ==
    {Instr("ORIGIN", 0, <<>>, a, 0, 0) : a \in Contracts}
    \cup {Instr("JUMPI", 1, <<1, 1>>, a, 0, 0) : a \in Contracts}
    \cup {Instr("CREATE", 2, <<0, 0, 0>>, 1, 2, 0)}

TheBytecode == Bytecode(TRUE, <<1>>)

Next ==
    \/ \E c \in Configs : Configure(c)
    \/ DeployHelperBegin(ZeroAddress, TheBytecode, None, None)
    \/ CreateEndHook
    \/ DeployHelperEnd
    \/ \E c \in Contracts : ContractCallHelperBegin(c, ZeroAddress, None)
    \/ ContractCallHelperEnd
    \/ StepHook(TxInstrs, MaxSteps)
    \/ StepEndHook

Spec == Init /\ [][Next]_vars

(***************************************************************************)
(* Properties of the transaction specification                             *)
(***************************************************************************)
NoDuplicates(seq) ==
    \A i, j \in 1..Len(seq) : seq[i] = seq[j] => i = j

\* the target is the first seen address when target-only filtering is on
TargetFirst(insp) ==
    (/\ insp.instrument_config.record_branch_for_target_only
     /\ insp.heuristics.seen_addresses # <<>>)
    => insp.heuristics.seen_addresses[1] = insp.instrument_config.target_address

\* C1 as stated: at every point, configure calls between the transactions
\* included, seen_addresses holds no address twice, and with target-only
\* filtering on a non-empty seen_addresses starts with the configured target.
C1_AtEveryPoint ==
    /\ NoDuplicates(bug_inspector.heuristics.seen_addresses)
    /\ TargetFirst(bug_inspector)

\* C1, amended: seen_addresses never holds an address twice, and while the
\* configuration is the one the last transaction began with, target-only
\* filtering on and seen_addresses non-empty imply index 0 is the target.
C1_SeenAddresses ==
    /\ NoDuplicates(bug_inspector.heuristics.seen_addresses)
    /\ (bug_inspector.instrument_config = tx_config => TargetFirst(bug_inspector))

\* a transaction under target-only filtering whose first opcode ran in a
\* contract other than the target, and which saw a second address
C1_Witness ==
    /\ tx.phase = "exec"
    /\ bug_inspector.instrument_config = tx_config
    /\ tx_config.record_branch_for_target_only
    /\ tx_ops # <<>>
    /\ interp.phase = "fetch"
    /\ tx_ops[1].address # tx_config.target_address
    /\ Len(bug_inspector.heuristics.seen_addresses) = 2
    /\ bug_inspector.heuristics.seen_addresses[1] = tx_config.target_address

\* the inspector a transaction would leave had it run on a new inspector
RECURSIVE Replay(_, _)
Replay(insp, ops) ==
    IF ops = <<>>
    THEN insp
    ELSE LET i == Head(ops)
             s == step(insp, i.op, i.pc, i.stack)
             e == step_end(s, i.address, Exec(i.op, i.stack, i.env), i.mem)
         IN  Replay(e.insp, Tail(ops))

\* seq is sub with elements inserted
RECURSIVE IsSubsequence(_, _)
IsSubsequence(sub, seq) ==
    IF sub = <<>> THEN TRUE
    ELSE IF seq = <<>> THEN FALSE
    ELSE IF Head(sub) = Head(seq)
         THEN IsSubsequence(Tail(sub), Tail(seq))
         ELSE IsSubsequence(sub, Tail(seq))

\* C5: when deploy_helper / contract_call_helper starts, bug_data,
\* created_addresses and the heuristics are back to their defaults; and the
\* Response holds the bugs, coverage, seen addresses and hash inputs that
\* this transaction's opcodes alone produce, and its bugs and missed
\* branches follow the order of the opcodes.
C5_PerTransaction ==
    /\ (tx.phase # "idle" /\ tx_ops = <<>>) =>
          /\ bug_inspector.bug_data = <<>>
          /\ bug_inspector.created_addresses = <<>>
          /\ bug_inspector.heuristics = DefaultHeuristics
    /\ response.kind \in {"deploy", "call"} =>
          LET alone == Replay(configure(DefaultBugInspector, tx_config), tx_ops)
          IN  /\ response.bug_data = alone.bug_data
              /\ response.heuristics.coverage = alone.heuristics.coverage
              /\ response.heuristics.seen_addresses = alone.heuristics.seen_addresses
              /\ response.heuristics.sha3_mapping = alone.heuristics.sha3_mapping
              /\ IsSubsequence(
                    [k \in 1..Len(response.heuristics.missed_branches) |->
                        <<"JUMPI", response.heuristics.missed_branches[k].prev_pc>>],
                    [k \in 1..Len(tx_ops) |-> <<tx_ops[k].op, tx_ops[k].pc>>])
              /\ IsSubsequence(
                    [k \in 1..Len(response.bug_data) |->
                        <<response.bug_data[k].opcode, response.bug_data[k].position>>],
                    [k \in 1..Len(tx_ops) |-> <<tx_ops[k].op, tx_ops[k].pc>>])

\* the second transaction has returned a Response with a bug, a coverage
\* entry and a seen address, after a first one that had left some of each
C5_Witness ==
    /\ tx_count = 2
    /\ response.kind = "call"
    /\ Len(response.bug_data) = 1
    /\ Len(response.heuristics.coverage) = 1
    /\ Len(response.heuristics.missed_branches) = 1
    /\ Len(tx_ops) = 2
    /\ response.heuristics.seen_addresses # <<>>
    /\ response.seen_pcs # {}

(***************************************************************************)
(* The branch specification: one call that executes comparisons and        *)
(* conditional jumps                                                       *)
(***************************************************************************)
BranchInstrs ==
    {Instr("JUMPI", 1, <<dest, cond>>, 1, 0, 0) : dest \in {1, 2}, cond \in {0, 1}}
    \cup {Instr("LT", 0, <<0, 1>>, 1, 0, 0), Instr("LT", 0, <<1, 0>>, 1, 0, 0)}

NextBranch ==
    \/ ContractCallHelperBegin(1, ZeroAddress, None)
    \/ StepHook(BranchInstrs, BranchSteps)
    \/ StepEndHook
    \/ ContractCallHelperEnd

SpecBranch == Init /\ [][NextBranch]_vars

SameTriple(m, n) ==
    /\ m.prev_pc = n.prev_pc
    /\ m.dest_pc = n.dest_pc
    /\ m.distance = n.distance

\* C3: missed_branches never holds two entries with the same (prev_pc,
\* dest_pc, distance), and within a transaction it changes only by one
\* entry appended whose triple no earlier entry has.
C3_MissedBranches ==
    /\ [](\A i, j \in 1..Len(bug_inspector.heuristics.missed_branches) :
             SameTriple(bug_inspector.heuristics.missed_branches[i],
                        bug_inspector.heuristics.missed_branches[j]) => i = j)
    /\ [][LET old == bug_inspector.heuristics.missed_branches
              new == bug_inspector'.heuristics.missed_branches
          IN  (tx.phase = "exec" /\ new # old) =>
                 /\ Len(new) = Len(old) + 1
                 /\ SubSeq(new, 1, Len(old)) = old
                 /\ \A i \in 1..Len(old) : ~SameTriple(old[i], new[Len(new)])]_vars

\* three JUMPIs have been recorded: one was new, one repeated a triple and was
\* left out, one differed and was appended
C3_Witness ==
    /\ tx.phase = "exec"
    /\ interp.phase = "fetch"
    /\ Len(tx_ops) = 3
    /\ \A k \in 1..3 : tx_ops[k].op = "JUMPI"
    /\ tx_ops[1].stack[1] = tx_ops[2].stack[1]
    /\ Len(bug_inspector.heuristics.missed_branches) = 2

(***************************************************************************)
(* The buffer specification: add_bug calls on an inspector whose buffers   *)
(* earlier add_bug calls of the same transaction have filled               *)
(***************************************************************************)
\* the k-th bug of a tight loop: a branch and a storage read at each turn
LoopBug(k) ==
    IF k % 2 = 1
    THEN Bug(BugType("Jumpi", k % 3, 0), "JUMPI", 1, 0)
    ELSE Bug(BugType("Sload", k % 3, 0), "SLOAD", 2, 0)

\* the inspector after add_bug took the first n bugs of the loop, n small
\* enough that neither buffer is over its cap: each call only appended
Filled(n) ==
    [DefaultBugInspector EXCEPT
        !.heuristics.coverage = [k \in 1..((n + 1) \div 2) |-> LoopBug(2 * k - 1).bug_type.x],
        !.bug_data = [k \in 1..(n \div 2) |-> LoopBug(2 * k)]]

\* the number of loop bugs that fill both buffers to two below their caps
PreFill == 2 * (CoverageCap - 2)

AddedBugs ==
    {Bug(BugType("Jumpi", d, 0), "JUMPI", 1, 0) : d \in {1, 2}}
    \cup {Bug(BugType("Sload", k, 0), "SLOAD", 2, 0) : k \in {1, 2}}
    \cup {Bug(BugType("Sstore", 1, 2), "SSTORE", 3, 0)}

InitCap ==
    /\ \E n \in {0, PreFill} :
          /\ bug_inspector = Filled(n)
          /\ added = [k \in 1..n |-> LoopBug(k)]
    /\ db = insert_account_info(DefaultForkDB, ZeroAddress, OwnerInfo)
    /\ journal = Put(EmptyMap, ZeroAddress, BumpedCaller(db, ZeroAddress))
    /\ tx = [IdleTx EXCEPT !.phase = "exec", !.kind = "call", !.address = 1]
    /\ interp = IdleInterp
    /\ response = NoResponse
    /\ fault = FALSE
    /\ tx_count = 1
    /\ tx_ops = <<>>
    /\ deploys = <<>>
    /\ tx_config = DefaultInstrumentConfig
    /\ chain = IdleChain
    /\ snapshots = EmptyMap
    /\ call_depth = 0
    /\ log_inspector = DefaultLogInspector
    /\ provider_log = <<>>
    /\ ret = NoReturn
    /\ frames = <<>>
    /\ cache = EmptyMap
    /\ global_snapshot = EmptyMap
    /\ tx_gas_limit = TX_GAS_LIMIT

\* BugInspector::add_bug
AddBug(bug) ==
    /\ \/ Len(added) < MaxAdds
       \/ PreFill <= Len(added) /\ Len(added) < PreFill + MaxAdds
    /\ bug_inspector' = add_bug(bug_inspector, bug)
    /\ added' = Append(added, bug)
    /\ UNCHANGED <<db, journal, tx, interp, response, fault, tx_count, tx_ops,
                   deploys, tx_config, chain, snapshots, call_depth,
                   log_inspector, provider_log, ret, frames, cache,
                   global_snapshot, tx_gas_limit>>

NextCap == \E bug \in AddedBugs : AddBug(bug)

SpecCap == InitCap /\ [][NextCap]_vars

\* the last n elements of seq (all of them if it has fewer)
LastN(seq, n) ==
    IF Len(seq) <= n THEN seq ELSE SubSeq(seq, Len(seq) - n + 1, Len(seq))

IsJumpi(bug) == bug.bug_type.kind = "Jumpi"
IsStorage(bug) == bug.bug_type.kind \in {"Sload", "Sstore"}

JumpiTargets == LET js == SelectSeq(added, IsJumpi)
                IN  [k \in 1..Len(js) |-> js[k].bug_type.x]

\* C2: coverage never holds more than 256 entries, and it is the most
\* recent (at most 256) taken targets handed to add_bug, oldest first.
C2_CoverageCap ==
    /\ Len(bug_inspector.heuristics.coverage) <= CoverageCap
    /\ bug_inspector.heuristics.coverage = LastN(JumpiTargets, CoverageCap)

\* more than 256 targets have been recorded: the oldest ones were dropped
C2_Witness ==
    /\ Len(JumpiTargets) > CoverageCap
    /\ Len(bug_inspector.heuristics.coverage) = CoverageCap

\* C4 as stated: with only Sload and Sstore bugs handed to add_bug, bug_data
\* never holds more than 256 entries and is the most recent ones in
\* insertion order.
C4_BugDataCap ==
    /\ Len(bug_inspector.bug_data) <= BugDataCap
    /\ bug_inspector.bug_data = LastN(SelectSeq(added, IsStorage), BugDataCap)

(***************************************************************************)
(* The arithmetic specification: a call that executes ADD and EXP on every *)
(* pair of operands                                                        *)
(***************************************************************************)
ArithInstrs ==
    {Instr("ADD", 3, <<a, b>>, 1, 0, 0) : a \in Words, b \in Words}
    \cup {Instr("EXP", 5, <<a, b>>, 1, 0, 0) : a \in Words, b \in Words}

NextArith ==
    \/ ContractCallHelperBegin(1, ZeroAddress, None)
    \/ StepHook(ArithInstrs, ArithSteps)
    \/ StepEndHook

SpecArith == Init /\ [][NextArith]_vars

\* the opcodes whose step_end hook has returned or panicked
Completed ==
    IF interp.phase = "executed" THEN SubSeq(tx_ops, 1, Len(tx_ops) - 1) ELSE tx_ops

IsAdd(i) == i.op = "ADD"
AddOverflows(i) == i.op = "ADD" /\ i.stack[1] + i.stack[2] > UMax
FromAdd(bug) == bug.opcode = "ADD"
FromExp(bug) == bug.opcode = "EXP"

\* a^b, capped at UMax + 1
RECURSIVE CappedPower(_, _)
CappedPower(a, b) ==
    IF b = 0 THEN 1 ELSE Min(UMax + 1, a * CappedPower(a, b - 1))

ExpOverflows(i) == i.op = "EXP" /\ CappedPower(i.stack[1], i.stack[2]) > UMax

\* the bugs the claims expect of the opcodes in ops that satisfy Overflows
Expected(ops, Overflows(_)) ==
    LET over == SelectSeq(ops, Overflows)
    IN  [k \in 1..Len(over) |->
            Bug(BugType("IntegerOverflow", 0, 0), over[k].op, over[k].pc, 0)]

\* C9: the bugs the ADD opcodes of a transaction produce are exactly one
\* IntegerOverflow, at the ADD's program counter, for each ADD whose
\* operands' sum does not fit in a word, and that is the case iff the
\* wrapped result is below an operand.
C9_AddOverflow ==
    /\ SelectSeq(bug_inspector.bug_data, FromAdd) = Expected(Completed, AddOverflows)
    /\ \A k \in 1..Len(tx_ops) :
          IsAdd(tx_ops[k]) =>
             LET a == tx_ops[k].stack[1]
                 b == tx_ops[k].stack[2]
                 r == wrapping_add(a, b)
             IN  (a + b > UMax) <=> (r < a \/ r < b)

\* an ADD whose operands' sum does not fit has been executed and reported
C9_Witness ==
    /\ tx.phase = "exec"
    /\ interp.phase = "fetch"
    /\ tx_ops # <<>>
    /\ AddOverflows(tx_ops[Len(tx_ops)])
    /\ tx_ops[Len(tx_ops)].stack[1] < UMax
    /\ bug_inspector.bug_data # <<>>
    /\ bug_inspector.bug_data[Len(bug_inspector.bug_data)].position = 3

\* C10 as stated: for every base and exponent the EXP check completes, and
\* the EXP opcodes' bugs are one IntegerOverflow for each EXP whose power
\* exceeds the largest word (none when the exponent is zero).
C10_ExpOverflow ==
    /\ ~fault
    /\ SelectSeq(bug_inspector.bug_data, FromExp) = Expected(Completed, ExpOverflows)

(***************************************************************************)
(* The chain specification: inspectors are registered, and the EVM         *)
(* dispatches call, create and eofcreate through the chain                 *)
(***************************************************************************)
Inspectors == {Inspector(c, r, e) : c \in BOOLEAN, r \in BOOLEAN, e \in BOOLEAN}

\* ChainInspector::add
ChainAdd(inspector) ==
    /\ Len(chain.inspectors) < MaxInspectors
    /\ chain' = [IdleChain EXCEPT !.inspectors = add(chain.inspectors, inspector)]
    /\ UNCHANGED <<bug_inspector, db, journal, tx, interp, response, fault,
                   tx_count, tx_ops, deploys, tx_config, added, snapshots, call_depth,
                   log_inspector, provider_log, ret, frames, cache,
                   global_snapshot, tx_gas_limit>>

Dispatched(hook, r) ==
    /\ chain' = [chain EXCEPT !.hook = hook, !.invoked = r.invoked, !.result = r.result]
    /\ UNCHANGED <<bug_inspector, db, journal, tx, interp, response, fault,
                   tx_count, tx_ops, deploys, tx_config, added, snapshots, call_depth,
                   log_inspector, provider_log, ret, frames, cache,
                   global_snapshot, tx_gas_limit>>

\* Inspector::call of the chain
ChainCall == Dispatched("call", call(chain.inspectors))

\* Inspector::create of the chain
ChainCreate == Dispatched("create", create(chain.inspectors))

\* Inspector::eofcreate of the chain
ChainEofcreate == Dispatched("eofcreate", eofcreate(chain.inspectors))

NextChain ==
    \/ \E i \in Inspectors : ChainAdd(i)
    \/ ChainCall
    \/ ChainCreate
    \/ ChainEofcreate

SpecChain == Init /\ [][NextChain]_vars

\* C8: for call, create and eofcreate the chain invokes the inspectors in
\* registration order up to and including the first that returns an outcome,
\* returns that outcome, and returns none iff every inspector returned none.
C8_FirstOutcomeWins ==
    chain.hook # "none" =>
       LET n == Len(chain.inspectors)
           present == {i \in 1..n : chain.inspectors[i][chain.hook]}
           first == IF present = {} THEN n
                    ELSE CHOOSE i \in present : \A j \in present : i <= j
       IN  /\ chain.invoked = [k \in 1..first |-> k]
           /\ chain.result = IF present = {} THEN None ELSE Some(first)
           /\ (chain.result = None <=> present = {})

\* create went through a chain of three inspectors; the second and the
\* third return an outcome, and the third was not invoked
C8_Witness ==
    /\ chain.hook = "create"
    /\ Len(chain.inspectors) = 3
    /\ ~chain.inspectors[1].create
    /\ chain.inspectors[2].create
    /\ chain.inspectors[3].create
    /\ chain.invoked = <<1, 2>>
    /\ chain.result = Some(2)

(***************************************************************************)
(* The deploy specification: deployments with and without a forced address *)
(***************************************************************************)
ForceAddresses ==
    {1, CreateAddress(ZeroAddress, 0), CreateAddress(ZeroAddress, 1)}

Bytecodes == {Bytecode(TRUE, <<1>>), Bytecode(TRUE, <<2>>), Bytecode(FALSE, <<>>)}

NextDeploy ==
    \/ \E b \in Bytecodes, f \in {None} \cup {Some(r) : r \in ForceAddresses} :
          DeployHelperBegin(ZeroAddress, b, None, f)
    \/ CreateEndHook
    \/ DeployHelperEnd

SpecDeploy == Init /\ [][NextDeploy]_vars

\* the deployment succeeded at its forced address
DeployedAtForce(d) ==
    /\ d.kind = "deploy"
    /\ d.success
    /\ d.data = d.force
    /\ d.code_hash = Some(Keccak256(d.bytecode.runtime))

\* C6 as stated: a deployment with force_address = R of bytecode whose
\* constructor succeeds reports success and R and leaves the code at R, and
\* the same call made again does so too, with the same code hash at R.
C6_ForcedRedeploy ==
    /\ (/\ Len(deploys) >= 1
        /\ deploys[1].force # None
        /\ deploys[1].bytecode.ok) => DeployedAtForce(deploys[1])
    /\ (/\ Len(deploys) = 2
        /\ deploys[1].force # None
        /\ deploys[1].bytecode.ok
        /\ deploys[2].owner = deploys[1].owner
        /\ deploys[2].bytecode = deploys[1].bytecode
        /\ deploys[2].force = deploys[1].force) =>
           /\ DeployedAtForce(deploys[2])
           /\ deploys[2].code_hash = deploys[1].code_hash

(***************************************************************************)
(* The create_end specification: the hook on any outcome, any journaled    *)
(* state and any override                                                  *)
(***************************************************************************)
CreatedAddresses == {CreateAddress(ZeroAddress, 0), CreateAddress(ZeroAddress, 1)}

InitCreateEnd ==
    /\ \E overrides \in {EmptyMap} \cup
                        {Put(EmptyMap, a, r) : a \in CreatedAddresses, r \in {1, 2}} :
          bug_inspector = [DefaultBugInspector EXCEPT !.create_address_overrides = overrides]
    /\ \E loaded \in SUBSET CreatedAddresses :
          journal = [a \in loaded |->
                        JournalAccount(AccountInfo(0, 1, Keccak256(<<1>>), <<1>>),
                                       EmptyMap, {"Touched", "Created"})]
    /\ \E result \in {"Return", "Revert"},
          address \in {None} \cup {Some(a) : a \in CreatedAddresses} :
          tx = [IdleTx EXCEPT !.phase = "exec", !.kind = "deploy",
                              !.address = CreateAddress(ZeroAddress, 0),
                              !.bytecode = Bytecode(result = "Return", <<1>>),
                              !.outcome = CreateOutcome(result, address)]
    /\ db = insert_account_info(DefaultForkDB, ZeroAddress, OwnerInfo)
    /\ interp = IdleInterp
    /\ response = NoResponse
    /\ fault = FALSE
    /\ tx_count = 1
    /\ tx_ops = <<>>
    /\ deploys = <<>>
    /\ tx_config = DefaultInstrumentConfig
    /\ added = <<>>
    /\ chain = IdleChain
    /\ snapshots = EmptyMap
    /\ call_depth = 0
    /\ log_inspector = DefaultLogInspector
    /\ provider_log = <<>>
    /\ ret = NoReturn
    /\ frames = <<>>
    /\ cache = EmptyMap
    /\ global_snapshot = EmptyMap
    /\ tx_gas_limit = TX_GAS_LIMIT

\* Inspector::create_end of the BugInspector, on the outcome the EVM hands it
CreateEnd ==
    /\ tx.phase = "exec"
    /\ tx.kind = "deploy"
    /\ LET ce == create_end(bug_inspector, journal, tx.outcome)
       IN  /\ journal' = ce.state
           /\ tx' = [tx EXCEPT !.phase = "done", !.outcome = ce.outcome]
    /\ UNCHANGED <<bug_inspector, db, interp, response, fault, tx_count, tx_ops,
                   deploys, tx_config, added, chain, snapshots, call_depth,
                   log_inspector, provider_log, ret, frames, cache,
                   global_snapshot, tx_gas_limit>>

NextCreateEnd == CreateEnd

SpecCreateEnd == InitCreateEnd /\ [][NextCreateEnd]_vars

\* C7 as stated: when create_end finds an override for the created address
\* but no entry for it in the journaled state, it returns the outcome it was
\* given, result and address, and leaves the journaled state as it was.
C7_MissingStateEntry ==
    [][(/\ tx.phase = "exec"
        /\ tx.outcome.address # None
        /\ tx.outcome.address[1] \in DOMAIN bug_inspector.create_address_overrides
        /\ tx.outcome.address[1] \notin DOMAIN journal) =>
           /\ tx'.outcome = tx.outcome
           /\ journal' = journal]_vars

(***************************************************************************)
(* fork_db.rs : the reads of the ForkDB with a provider behind it          *)
(***************************************************************************)
\* the chain the provider serves: address 1 holds code, address 2 a balance,
\* address 3 nothing; a slot of address 1 holds the slot number plus one
RemoteCode(address) == IF address = 1 THEN <<1>> ELSE <<>>
RemoteBalance(address) == IF address = 2 THEN 1 ELSE 0
RemoteNonce(address) == 0
RemoteStorage(address, slot) == IF address = 1 THEN slot + 1 ELSE 0
RemoteBlockHash(number) == [block |-> number]

\* Result values
Ok(value) == [kind |-> "ok", value |-> value]
Err(what) == [kind |-> "err", value |-> what]
Panic(what) == [kind |-> "panic", value |-> what]

\* the return of operation op called with args
Returned(op, args, result) ==
    [op |-> op, args |-> args, kind |-> result.kind, value |-> result.value]

\* a request to the provider
Request(method, address, slot) == [method |-> method, address |-> address, slot |-> slot]

\* ForkDB::create_with_provider(Some(provider), Some(block_id))
ForkedForkDB == [DefaultForkDB EXCEPT !.fork_enabled = TRUE, !.provider = TRUE]

\* U256::to_be_bytes: the digits of the word, most significant first
to_be_bytes(number) ==
    [i \in 1..WordBits |-> (number \div 2^(WordBits - i)) % 2]

\* is_remote with every fetched account taken for one that exists on chain
is_remote_always(code, balance, nonce) == TRUE

\* ForkDB::basic, is_remote: the fetched account exists on chain
is_remote(code, balance, nonce) == code # <<>> \/ balance # 0 \/ nonce # 0

\* basic fetching an absent account at any call depth
basic_mut_any_depth(fdb, address, depth, up) ==
    IF address \in DOMAIN fdb.accounts
    THEN [db |-> fdb, ret |-> Ok(Some(fdb.accounts[address].info)), requests |-> <<>>]
    ELSE IF ~fdb.fork_enabled
    THEN [db |-> fdb, ret |-> Ok(None), requests |-> <<>>]
    ELSE IF ~fdb.provider
    THEN [db |-> fdb, ret |-> Panic("unwrap"), requests |-> <<>>]
    ELSE IF ~up
    THEN [db |-> fdb, ret |-> Err("provider"),
          requests |-> <<Request("get_transaction_count", address, 0)>>]
    ELSE LET info == AccountInfo(RemoteBalance(address), RemoteNonce(address),
                                 Keccak256(RemoteCode(address)), RemoteCode(address))
         IN  [db |-> insert_account_info(fdb, address, info),
              ret |-> Ok(Some(info)),
              requests |-> <<Request("get_transaction_count", address, 0),
                             Request("get_balance", address, 0),
                             Request("get_code", address, 0)>>]

\* ForkDB::basic.  depth is CALL_DEPTH, up says whether the provider answers;
\* db is the database afterwards, requests the provider requests made
basic_mut(fdb, address, depth, up) ==
    IF address \in DOMAIN fdb.accounts
    THEN [db |-> fdb, ret |-> Ok(Some(fdb.accounts[address].info)), requests |-> <<>>]
    ELSE IF ~fdb.fork_enabled
    THEN [db |-> fdb, ret |-> Ok(None), requests |-> <<>>]
    ELSE IF depth > fdb.max_fork_depth
    THEN [db |-> [fdb EXCEPT !.ignored_addresses = @ \cup {address}],
          ret |-> Ok(None), requests |-> <<>>]
    ELSE IF ~fdb.provider
    THEN [db |-> fdb, ret |-> Panic("unwrap"), requests |-> <<>>]
    ELSE IF ~up
    THEN [db |-> fdb, ret |-> Err("provider"),
          requests |-> <<Request("get_transaction_count", address, 0)>>]
    ELSE LET nonce == RemoteNonce(address)
             balance == RemoteBalance(address)
             code == RemoteCode(address)
             remote == is_remote(code, balance, nonce)
             info == AccountInfo(balance, nonce, Keccak256(code), code)
             db1 == insert_account_info(fdb, address, info)
         IN  [db |-> IF remote
                     THEN [db1 EXCEPT !.remote_addresses =
                              IF address \in DOMAIN @ THEN @ ELSE Put(@, address, {})]
                     ELSE db1,
              ret |-> Ok(Some(info)),
              requests |-> <<Request("get_transaction_count", address, 0),
                             Request("get_balance", address, 0),
                             Request("get_code", address, 0)>>]

\* storage returning the fetched value without caching it
storage_uncached(fdb, address, index, depth, up) ==
    LET b == basic_mut(fdb, address, depth, up)
        db1 == b.db
    IN  IF b.ret.kind # "ok"
        THEN b
        ELSE IF /\ address \in DOMAIN db1.accounts
                /\ index \in DOMAIN db1.accounts[address].storage
        THEN [db |-> db1, ret |-> Ok(db1.accounts[address].storage[index]),
              requests |-> b.requests]
        ELSE IF address \notin DOMAIN db1.remote_addresses \/ ~db1.fork_enabled
        THEN [db |-> db1, ret |-> Ok(0), requests |-> b.requests]
        ELSE IF ~db1.provider
        THEN [db |-> db1, ret |-> Panic("unwrap"), requests |-> b.requests]
        ELSE IF ~up
        THEN [db |-> db1, ret |-> Err("provider"),
              requests |-> Append(b.requests, Request("get_storage_at", address, index))]
        ELSE [db |-> [db1 EXCEPT !.remote_addresses[address] = @ \cup {index}],
              ret |-> Ok(RemoteStorage(address, index)),
              requests |-> Append(b.requests, Request("get_storage_at", address, index))]

\* ForkDB::storage
storage(fdb, address, index, depth, up) ==
    LET b == basic_mut(fdb, address, depth, up)
        db1 == b.db
    IN  IF b.ret.kind # "ok"
        THEN b
        ELSE IF /\ address \in DOMAIN db1.accounts
                /\ index \in DOMAIN db1.accounts[address].storage
        THEN [db |-> db1, ret |-> Ok(db1.accounts[address].storage[index]),
              requests |-> b.requests]
        ELSE IF address \notin DOMAIN db1.remote_addresses \/ ~db1.fork_enabled
        THEN [db |-> db1, ret |-> Ok(0), requests |-> b.requests]
        ELSE IF ~db1.provider
        THEN [db |-> db1, ret |-> Panic("unwrap"), requests |-> b.requests]
        ELSE IF ~up
        THEN [db |-> db1, ret |-> Err("provider"),
              requests |-> Append(b.requests, Request("get_storage_at", address, index))]
        ELSE LET value == RemoteStorage(address, index)
                 acc == Entry(db1.accounts, address)
             IN  [db |-> [db1 EXCEPT
                             !.remote_addresses[address] = @ \cup {index},
                             !.accounts = Put(@, address,
                                 [acc EXCEPT !.storage = Put(@, index, value)])],
                  ret |-> Ok(value),
                  requests |-> Append(b.requests, Request("get_storage_at", address, index))]

\* u64::MAX: u64 is as wide as usize
U64Max == UsizeMax

\* block_hash going to the provider whether or not forking is enabled
block_hash_always_remote(fdb, number, up) ==
    IF number \in DOMAIN fdb.block_hashes
    THEN [db |-> fdb, ret |-> Ok(fdb.block_hashes[number]), requests |-> <<>>]
    ELSE IF number > U64Max
    THEN [db |-> fdb, ret |-> Ok(KECCAK_EMPTY), requests |-> <<>>]
    ELSE IF ~fdb.provider
    THEN [db |-> fdb, ret |-> Err("No provider to retrieve from remote endpoint"),
          requests |-> <<>>]
    ELSE IF ~up
    THEN [db |-> fdb, ret |-> Err("provider"),
          requests |-> <<Request("get_block", 0, number)>>]
    ELSE [db |-> [fdb EXCEPT !.block_hashes = Put(@, number, RemoteBlockHash(number))],
          ret |-> Ok(RemoteBlockHash(number)),
          requests |-> <<Request("get_block", 0, number)>>]

\* ForkDB::block_hash (with ForkDB::get_fork_block_by_number, whose block
\* cache is filled together with block_hashes)
block_hash(fdb, number, up) ==
    IF number \in DOMAIN fdb.block_hashes
    THEN [db |-> fdb, ret |-> Ok(fdb.block_hashes[number]), requests |-> <<>>]
    ELSE IF ~fdb.fork_enabled
    THEN [db |-> fdb, ret |-> Ok(Keccak256(to_be_bytes(number))), requests |-> <<>>]
    ELSE IF number > U64Max
    THEN [db |-> fdb, ret |-> Ok(KECCAK_EMPTY), requests |-> <<>>]
    ELSE IF ~fdb.provider
    THEN [db |-> fdb, ret |-> Err("No provider to retrieve from remote endpoint"),
          requests |-> <<>>]
    ELSE IF ~up
    THEN [db |-> fdb, ret |-> Err("provider"),
          requests |-> <<Request("get_block", 0, number)>>]
    ELSE [db |-> [fdb EXCEPT !.block_hashes = Put(@, number, RemoteBlockHash(number))],
          ret |-> Ok(RemoteBlockHash(number)),
          requests |-> <<Request("get_block", 0, number)>>]

\* replace_account_storage writing the new slots over the old storage
replace_account_storage_extend(fdb, address, new_storage, depth, up) ==
    LET b == basic_mut(fdb, address, depth, up)
    IN  IF b.ret.kind # "ok"
        THEN b
        ELSE [db |-> [b.db EXCEPT !.accounts =
                         Put(@, address, [Entry(@, address) EXCEPT
                             !.storage = [k \in DOMAIN @ \cup DOMAIN new_storage |->
                                            IF k \in DOMAIN new_storage
                                            THEN new_storage[k] ELSE @[k]],
                             !.account_state = "StorageCleared"])],
              ret |-> Ok(0), requests |-> b.requests]

\* ForkDB::replace_account_storage
replace_account_storage(fdb, address, new_storage, depth, up) ==
    LET b == basic_mut(fdb, address, depth, up)
    IN  IF b.ret.kind # "ok"
        THEN b
        ELSE [db |-> [b.db EXCEPT !.accounts =
                         Put(@, address, [Entry(@, address) EXCEPT
                                             !.storage = new_storage,
                                             !.account_state = "StorageCleared"])],
              ret |-> Ok(0), requests |-> b.requests]

\* ForkDB::insert_account_storage
insert_account_storage(fdb, address, slot, value, depth, up) ==
    LET b == basic_mut(fdb, address, depth, up)
    IN  IF b.ret.kind # "ok"
        THEN b
        ELSE [db |-> [b.db EXCEPT !.accounts =
                         Put(@, address, [Entry(@, address) EXCEPT
                                             !.storage = Put(@, slot, value)])],
              ret |-> Ok(0), requests |-> b.requests]

(***************************************************************************)
(* lib.rs : the facade's operations on accounts                            *)
(***************************************************************************)
\* TinyEVM::set_account_balance
set_account_balance(fdb, address, balance) ==
    IF address \in DOMAIN fdb.accounts
    THEN [fdb EXCEPT !.accounts[address].info.balance = balance]
    ELSE insert_account_info(fdb, address, AccountInfo(balance, 0, KECCAK_EMPTY, <<>>))

\* TinyEVM::reset_account
reset_account(fdb, addr) ==
    IF addr \in DOMAIN fdb.accounts
    THEN insert_account_info(fdb, addr, AccountInfo(DEFAULT_BALANCE, 0, KECCAK_EMPTY, <<>>))
    ELSE fdb

\* the balance set_code_by_address gives a new account: 10^12, more than
\* the words of the model hold, so the largest word
NewCodeBalance == UMax

\* TinyEVM::set_code_by_address
set_code_by_address(fdb, addr, code) ==
    IF addr \in DOMAIN fdb.accounts
    THEN insert_account_info(fdb, addr,
             [fdb.accounts[addr].info EXCEPT !.code = code, !.code_hash = Keccak256(code)])
    ELSE insert_account_info(fdb, addr,
             AccountInfo(NewCodeBalance, 0, Keccak256(code), code))

\* TinyEVM::clone_account
clone_account(fdb, from, to, delete) ==
    IF from \in DOMAIN fdb.accounts
    THEN LET copied == [fdb EXCEPT !.accounts = Put(@, to, fdb.accounts[from])]
         IN  IF delete
             THEN [copied EXCEPT !.accounts = Remove(@, from)]
             ELSE copied
    ELSE fdb

\* TinyEVM::nuke_account, on the database
nuke_account(fdb, addr) == [fdb EXCEPT !.accounts = Remove(@, addr)]

\* TinyEVM::toggle_enable_fork
toggle_enable_fork(fdb, enabled) == [fdb EXCEPT !.fork_enabled = enabled]

(***************************************************************************)
(* The fork database under the facade's account operations, remote reads   *)
(* and commits                                                             *)
(***************************************************************************)
ForkOps == 3

ForkAddrs == {1, 2, 3}
ForkSlots == {0, 1}
ForkCodes == {<<>>, <<2>>}

\* TinyEVM::new_instance with and without a fork url
InitFork ==
    /\ bug_inspector = DefaultBugInspector
    /\ db \in {insert_account_info(DefaultForkDB, ZeroAddress, OwnerInfo),
               insert_account_info(ForkedForkDB, ZeroAddress, OwnerInfo)}
    /\ journal = EmptyMap
    /\ tx = IdleTx
    /\ interp = IdleInterp
    /\ response = NoResponse
    /\ fault = FALSE
    /\ tx_count = 0
    /\ tx_ops = <<>>
    /\ deploys = <<>>
    /\ tx_config = DefaultInstrumentConfig
    /\ added = <<>>
    /\ chain = IdleChain
    /\ snapshots = EmptyMap
    /\ call_depth = 0
    /\ log_inspector = DefaultLogInspector
    /\ provider_log = <<>>
    /\ ret = NoReturn
    /\ frames = <<>>
    /\ cache = EmptyMap
    /\ global_snapshot = EmptyMap
    /\ tx_gas_limit = TX_GAS_LIMIT

\* an operation on the database that returns result and leaves database after
ForkOp(op, args, after, result, requests) ==
    /\ tx_count < ForkOps
    /\ tx_count' = tx_count + 1
    /\ db' = after
    /\ ret' = Returned(op, args, result)
    /\ provider_log' = provider_log \o requests
    /\ UNCHANGED <<bug_inspector, journal, tx, interp, response, fault, tx_ops,
                   deploys, tx_config, added, chain, call_depth, log_inspector,
                   frames, cache,
                   global_snapshot, tx_gas_limit>>

SetAccountBalance(address, balance) ==
    /\ ForkOp("set_account_balance", <<address>>,
              set_account_balance(db, address, balance), Ok(0), <<>>)
    /\ UNCHANGED snapshots

SetCodeByAddress(addr, code) ==
    /\ ForkOp("set_code_by_address", <<addr>>,
              set_code_by_address(db, addr, code), Ok(0), <<>>)
    /\ UNCHANGED snapshots

ResetAccount(addr) ==
    /\ ForkOp("reset_account", <<addr>>, reset_account(db, addr), Ok(0), <<>>)
    /\ UNCHANGED snapshots

\* TinyEVM::reset_storage
ResetStorage(addr, up) ==
    /\ LET r == replace_account_storage(db, addr, EmptyMap, call_depth, up)
       IN  ForkOp("reset_storage", <<addr>>, r.db, r.ret, r.requests)
    /\ UNCHANGED snapshots

NukeAccount(addr) ==
    /\ ForkOp("nuke_account", <<addr>>, nuke_account(db, addr), Ok(0), <<>>)
    /\ UNCHANGED snapshots

CloneAccount(from, to, delete) ==
    /\ ForkOp("clone_account", <<from, to>>, clone_account(db, from, to, delete),
              Ok(0), <<>>)
    /\ UNCHANGED snapshots

\* TinyEVM::take_snapshot
TakeSnapshot(addr) ==
    /\ IF addr \in DOMAIN db.accounts
       THEN /\ snapshots' = Put(snapshots, addr, db.accounts[addr])
            /\ ForkOp("take_snapshot", <<addr>>, db, Ok(0), <<>>)
       ELSE /\ snapshots' = snapshots
            /\ ForkOp("take_snapshot", <<addr>>, db, Err("Account not found"), <<>>)

\* restore_snapshot putting back the info of the snapshot only
RestoreSnapshot_info_only(addr) ==
    /\ IF addr \in DOMAIN snapshots
       THEN ForkOp("restore_snapshot", <<addr>>,
                   [db EXCEPT !.accounts =
                       Put(@, addr, [Entry(@, addr) EXCEPT !.info = snapshots[addr].info])],
                   Ok(0), <<>>)
       ELSE ForkOp("restore_snapshot", <<addr>>, db, Err("No snapshot found"), <<>>)
    /\ UNCHANGED snapshots

\* TinyEVM::restore_snapshot
RestoreSnapshot(addr) ==
    /\ IF addr \in DOMAIN snapshots
       THEN ForkOp("restore_snapshot", <<addr>>,
                   [db EXCEPT !.accounts = Put(@, addr, snapshots[addr])], Ok(0), <<>>)
       ELSE ForkOp("restore_snapshot", <<addr>>, db, Err("No snapshot found"), <<>>)
    /\ UNCHANGED snapshots

ToggleEnableFork(enabled) ==
    /\ enabled # db.fork_enabled
    /\ ForkOp("toggle_enable_fork", <<>>, toggle_enable_fork(db, enabled), Ok(0), <<>>)
    /\ UNCHANGED snapshots

\* Database::basic as the EVM or the facade calls it
Basic(address, up) ==
    /\ LET r == basic_mut(db, address, call_depth, up)
       IN  ForkOp("basic", <<address>>, r.db, r.ret, r.requests)
    /\ UNCHANGED snapshots

\* Database::storage
Storage(address, index, up) ==
    /\ LET r == storage(db, address, index, call_depth, up)
       IN  ForkOp("storage", <<address, index>>, r.db, r.ret, r.requests)
    /\ UNCHANGED snapshots

\* Database::block_hash
BlockHash(number, up) ==
    /\ LET r == block_hash(db, number, up)
       IN  ForkOp("block_hash", <<number>>, r.db, r.ret, r.requests)
    /\ UNCHANGED snapshots

\* the accounts a transaction can leave in the journaled state
JournalAccounts ==
    { JournalAccount(AccountInfo(1, 1, Keccak256(code), code), Put(EmptyMap, 0, 1),
                     status) :
        code \in ForkCodes,
        status \in {{}, {"Touched"}, {"Touched", "Created"},
                    {"Touched", "SelfDestructed"}} }

\* DatabaseCommit::commit at the end of a transaction
Commit(address, account) ==
    /\ ForkOp("commit", <<address>>, commit(db, Put(EmptyMap, address, account)),
              Ok(0), <<>>)
    /\ UNCHANGED snapshots

NextFork ==
    \/ \E a \in ForkAddrs : SetAccountBalance(a, 1)
    \/ \E a \in ForkAddrs, code \in ForkCodes : SetCodeByAddress(a, code)
    \/ \E a \in ForkAddrs : ResetAccount(a)
    \/ \E a \in ForkAddrs, up \in BOOLEAN : ResetStorage(a, up)
    \/ \E a \in ForkAddrs : NukeAccount(a)
    \/ \E from \in ForkAddrs, delete \in BOOLEAN :
          \E to \in ForkAddrs \ {from} : CloneAccount(from, to, delete)
    \/ \E a \in ForkAddrs : TakeSnapshot(a)
    \/ \E a \in ForkAddrs : RestoreSnapshot(a)
    \/ \E enabled \in BOOLEAN : ToggleEnableFork(enabled)
    \/ \E a \in ForkAddrs, up \in BOOLEAN : Basic(a, up)
    \/ \E a \in ForkAddrs, slot \in ForkSlots, up \in BOOLEAN : Storage(a, slot, up)
    \/ \E n \in ForkSlots, up \in BOOLEAN : BlockHash(n, up)
    \/ \E a \in ForkAddrs, account \in JournalAccounts : Commit(a, account)

SpecFork == InitFork /\ [][NextFork]_vars

\* C11: every account of the database carries the hash of its own code:
\* keccak256 of the code when the code is non-empty, keccak256 of the empty
\* string otherwise
C11_CodeHash ==
    \A a \in DOMAIN db.accounts :
        LET info == db.accounts[a].info
        IN  info.code_hash = IF info.code # <<>>
                             THEN Keccak256(info.code)
                             ELSE KECCAK_EMPTY

\* code set by the facade, code fetched from the provider and an account
\* emptied by a committed self-destruct are in the database together
C11_Witness ==
    /\ \E a \in DOMAIN db.accounts : db.accounts[a].info.code = <<2>>
    /\ \E a \in DOMAIN db.accounts : db.accounts[a].info.code = <<1>>
    /\ \E a \in DOMAIN db.accounts : db.accounts[a].account_state = "NotExisting"

\* C12 as stated: while forking is disabled remote_addresses has no entry.
C12_NoRemoteWhenDisabled ==
    ~db.fork_enabled => DOMAIN db.remote_addresses = {}

\* the accounts basic has fetched from the provider so far: get_code is the
\* last of the three requests of a fetch
Fetched ==
    { a \in ForkAddrs \cup {ZeroAddress} :
        \E i \in 1..Len(provider_log) : provider_log[i] = Request("get_code", a, 0) }

\* the account the chain holds for the address has code, a balance or a nonce
RealOnChain(a) ==
    RemoteCode(a) # <<>> \/ RemoteBalance(a) # 0 \/ RemoteNonce(a) # 0

SlotCached(fdb, a, slot) ==
    a \in DOMAIN fdb.accounts /\ slot \in DOMAIN fdb.accounts[a].storage

\* the storage of every account
AllStorage(fdb) == [a \in DOMAIN fdb.accounts |-> fdb.accounts[a].storage]

\* a storage read of a cached slot returns the cached value, asks the
\* provider nothing and changes nothing
CachedRead(a, slot) ==
    SlotCached(db, a, slot) =>
        /\ ret'.kind = "ok"
        /\ ret'.value = db.accounts[a].storage[slot]
        /\ provider_log' = provider_log
        /\ db' = db

\* a storage read that found the address remote and forking enabled: the
\* value comes from the provider, the slot is recorded and the value cached
FetchedRead(a, slot) ==
    ret'.kind = "ok" =>
        /\ ret'.value = RemoteStorage(a, slot)
        /\ provider_log' = Append(provider_log, Request("get_storage_at", a, slot))
        /\ slot \in db'.remote_addresses[a]
        /\ SlotCached(db', a, slot)
        /\ db'.accounts[a].storage[slot] = ret'.value

\* C14 as stated: a storage read of a slot that is not cached returns zero,
\* asks the provider nothing and leaves the storage alone when the address is
\* not in remote_addresses or forking is disabled, and fetches, records and
\* caches the value otherwise; a read of a cached slot returns the cached
\* value without a request.
C14_AsStated ==
    [][\A a \in ForkAddrs, slot \in ForkSlots :
         (ret'.op = "storage" /\ ret'.args = <<a, slot>> /\ tx_count' # tx_count) =>
             /\ CachedRead(a, slot)
             /\ ~SlotCached(db, a, slot) =>
                  IF a \notin DOMAIN db.remote_addresses \/ ~db.fork_enabled
                  THEN /\ ret'.kind = "ok" => ret'.value = 0
                       /\ provider_log' = provider_log
                       /\ AllStorage(db') = AllStorage(db)
                  ELSE FetchedRead(a, slot)]_vars

\* C14: the same for an address whose account is in accounts, so that the
\* account load storage starts with asks the provider nothing
C14_StorageMiss ==
    [][\A a \in ForkAddrs, slot \in ForkSlots :
         (ret'.op = "storage" /\ ret'.args = <<a, slot>> /\ tx_count' # tx_count) =>
             /\ CachedRead(a, slot)
             /\ (a \in DOMAIN db.accounts /\ ~SlotCached(db, a, slot)) =>
                  IF a \notin DOMAIN db.remote_addresses \/ ~db.fork_enabled
                  THEN /\ ret'.kind = "ok"
                       /\ ret'.value = 0
                       /\ provider_log' = provider_log
                       /\ db' = db
                  ELSE FetchedRead(a, slot)]_vars

\* a slot of a remote address has been fetched from the provider, recorded in
\* remote_addresses and cached
C14_Witness ==
    /\ ret.op = "storage" /\ ret.args = <<1, 1>>
    /\ ret.kind = "ok" /\ ret.value = RemoteStorage(1, 1)
    /\ 1 \in DOMAIN db.remote_addresses /\ 1 \in db.remote_addresses[1]
    /\ tx_count = 3 /\ Len(provider_log) = 4
    /\ provider_log[4] = Request("get_storage_at", 1, 1)
    /\ DOMAIN db.accounts = {ZeroAddress, 1}

\* block_hash(n) returned the hash computed from the number, asked the
\* provider nothing and left the database alone
ComputedBlockHash(n) ==
    /\ ret'.kind = "ok"
    /\ ret'.value = Keccak256(to_be_bytes(n))
    /\ provider_log' = provider_log
    /\ db' = db

MaxHooks == 3

\* TinyEVM::new_instance with a fork url, with and without call tracing
InitLog ==
    /\ bug_inspector = DefaultBugInspector
    /\ db = insert_account_info([ForkedForkDB EXCEPT !.max_fork_depth = 1],
                                ZeroAddress, OwnerInfo)
    /\ journal = EmptyMap
    /\ tx = IdleTx
    /\ interp = IdleInterp
    /\ response = NoResponse
    /\ fault = FALSE
    /\ tx_count = 0
    /\ tx_ops = <<>>
    /\ deploys = <<>>
    /\ tx_config = DefaultInstrumentConfig
    /\ added = <<>>
    /\ chain = IdleChain
    /\ snapshots = EmptyMap
    /\ call_depth = 0
    /\ log_inspector \in {[DefaultLogInspector EXCEPT !.trace_enabled = enabled] :
                            enabled \in BOOLEAN}
    /\ provider_log = <<>>
    /\ ret = NoReturn
    /\ frames = <<>>
    /\ cache = EmptyMap
    /\ global_snapshot = EmptyMap
    /\ tx_gas_limit = TX_GAS_LIMIT

\* TinyEVM::set_evm_tracing
SetEvmTracing(enabled) ==
    /\ tx.phase = "idle"
    /\ enabled # log_inspector.trace_enabled
    /\ log_inspector' = [log_inspector EXCEPT !.trace_enabled = enabled]
    /\ UNCHANGED <<bug_inspector, db, journal, tx, interp, response, fault, tx_count,
                   tx_ops, deploys, tx_config, added, chain, snapshots, call_depth,
                   provider_log, ret, frames, cache,
                   global_snapshot, tx_gas_limit>>

\* a hook of the running transaction, as the history keeps it
Hook(name, arg) == [hook |-> name, arg |-> arg]

\* the contract whose code is running
Executing == frames[Len(frames)].target_address

\* the running contract makes a call: the call hook, then the new frame
CallHook(scheme, target) ==
    /\ tx.phase = "exec"
    /\ frames # <<>>
    /\ Len(tx_ops) < MaxHooks
    /\ LET inputs == CallInputs(scheme, Executing, target, target)
           hook == LogInspector_call(log_inspector, call_depth, inputs)
       IN  /\ log_inspector' = hook.insp
           /\ call_depth' = hook.depth
           /\ frames' = Append(frames, inputs)
           /\ tx_ops' = Append(tx_ops, Hook("call", inputs))
    /\ UNCHANGED <<bug_inspector, db, journal, tx, interp, response, fault, tx_count,
                   deploys, tx_config, added, chain, snapshots, provider_log, ret, cache,
                   global_snapshot, tx_gas_limit>>

\* a called frame ends: the frame is left, then the call_end hook; ret is
\* the outcome the hook hands back to the EVM
CallEndHook(result) ==
    /\ tx.phase = "exec"
    /\ Len(frames) > 1
    /\ LET hook == LogInspector_call_end(log_inspector, call_depth, result)
       IN  /\ log_inspector' = hook.insp
           /\ call_depth' = hook.depth
           /\ fault' = hook.fault
           /\ tx' = IF hook.fault THEN [tx EXCEPT !.phase = "panicked"] ELSE tx
           /\ ret' = Returned("call_end", <<>>, Ok(hook.outcome))
    /\ frames' = SubSeq(frames, 1, Len(frames) - 1)
    /\ tx_ops' = Append(tx_ops, Hook("call_end", result))
    /\ UNCHANGED <<bug_inspector, db, journal, interp, response, tx_count, deploys,
                   tx_config, added, chain, snapshots, provider_log, cache,
                   global_snapshot, tx_gas_limit>>

\* the running contract emits an event: the log hook
LogHook(topic) ==
    /\ tx.phase = "exec"
    /\ frames # <<>>
    /\ Len(tx_ops) < MaxHooks
    /\ LET evm_log == [address |-> Executing, topics |-> <<topic>>, data |-> <<>>]
       IN  /\ log_inspector' = LogInspector_log(log_inspector, call_depth, evm_log)
           /\ tx_ops' = Append(tx_ops, Hook("log", evm_log))
    /\ UNCHANGED <<bug_inspector, db, journal, tx, interp, response, fault, tx_count,
                   deploys, tx_config, added, chain, snapshots, call_depth,
                   provider_log, ret, frames, cache,
                   global_snapshot, tx_gas_limit>>

\* the EVM loads an account for the running frame: Database::basic
LoadAccountHook(address, up) ==
    /\ tx.phase = "exec"
    /\ frames # <<>>
    /\ Len(tx_ops) < MaxHooks
    /\ LET r == basic_mut(db, address, call_depth, up)
       IN  /\ db' = r.db
           /\ ret' = Returned("basic", <<address>>, r.ret)
           /\ provider_log' = provider_log \o r.requests
    /\ tx_ops' = Append(tx_ops, Hook("basic", address))
    /\ UNCHANGED <<bug_inspector, journal, tx, interp, response, fault, tx_count,
                   deploys, tx_config, added, chain, snapshots, call_depth,
                   log_inspector, frames, cache,
                   global_snapshot, tx_gas_limit>>

NextLog ==
    \/ \E enabled \in BOOLEAN : SetEvmTracing(enabled)
    \/ ContractCallHelperBegin(1, ZeroAddress, None)
    \/ CallHook("DelegateCall", 2)
    \/ CallEndHook(CallOutcome("Return", <<1>>))
    \/ LogHook(1)
    \/ LoadAccountHook(2, TRUE)
    \/ ContractCallHelperEnd

SpecLog == InitLog /\ [][NextLog]_vars

CallOutcomes == {CallOutcome("Return", <<1>>), CallOutcome("Stop", <<>>)}

\* a call frame has ended in this step
CallEnded == Len(frames') = Len(frames) - 1

\* the traces with the result written into trace i
WithResult(before, i, result) ==
    [before EXCEPT ![i].return_data = Some(result.output),
                   ![i].status = Some(result.result)]

\* C17 as stated: with tracing enabled, call_end decrements CALL_DEPTH and
\* writes return_data and status into the most recently pushed trace whose
\* depth is the new depth, and leaves every other trace as it is.
C17_MostRecentTrace ==
    [][(CallEnded /\ log_inspector.trace_enabled) =>
          LET before == log_inspector.traces
              found == {i \in 1..Len(before) : before[i].depth = call_depth - 1}
              newest == CHOOSE i \in found : \A j \in found : j <= i
          IN  /\ call_depth' = call_depth - 1
              /\ found # {}
              /\ \E result \in CallOutcomes :
                    log_inspector'.traces = WithResult(before, newest, result)]_vars

\* tracing is disabled and stays so in this step
TracingOff == ~log_inspector.trace_enabled /\ ~log_inspector'.trace_enabled

\* the hooks of the log inspector do nothing in this step: traces, logs, the
\* id counter and CALL_DEPTH stay, and call_end hands back the outcome it got
HooksIdle ==
    /\ log_inspector' = log_inspector
    /\ call_depth' = call_depth
    /\ \A result \in CallOutcomes :
          tx_ops' = Append(tx_ops, Hook("call_end", result))
          => ret' = Returned("call_end", <<>>, Ok(result))

\* contract_call_helper returns its Response in this step
CallReturned == tx.phase = "exec" /\ tx'.phase = "idle"

HooksOf(name) == SelectSeq(tx_ops, LAMBDA h : h.hook = name)

\* C19 as stated: with tracing enabled, the Response of a contract call has
\* exactly the traces of the calls entered during that call (its first frame
\* and the calls made below it) and exactly the events emitted during it.
C19_ExactlyThisCall ==
    [][(CallReturned /\ log_inspector.trace_enabled) =>
          /\ Len(response'.traces) = 1 + Len(HooksOf("call"))
          /\ Len(response'.events) = Len(HooksOf("log"))]_vars

(***************************************************************************)
(* fork_provider.rs : the caching methods of the ForkProvider over the     *)
(* ProviderCache                                                           *)
(***************************************************************************)
\* format!("{:x}", n): the hexadecimal digits of n, most significant first
RECURSIVE ToHex(_)
ToHex(n) == IF n < 16 THEN <<n>> ELSE Append(ToHex(n \div 16), n % 16)

\* U256::from_str_radix(text, 16)
RECURSIVE from_str_radix(_)
from_str_radix(digits) ==
    IF digits = <<>>
    THEN 0
    ELSE 16 * from_str_radix(SubSeq(digits, 1, Len(digits) - 1)) + digits[Len(digits)]

\* the hexadecimal digits of a byte string, two for each byte
RECURSIVE encode(_)
encode(bytes) ==
    IF bytes = <<>>
    THEN <<>>
    ELSE <<bytes[1] \div 16, bytes[1] % 16>> \o encode(SubSeq(bytes, 2, Len(bytes)))

\* a text of hexadecimal digits, with or without the 0x prefix
HexText(prefix, digits) == [prefix |-> prefix, digits |-> digits]

\* the bytes of a sequence of hexadecimal digits: an odd number of digits
\* is an error
RECURSIVE decode_digits(_)
decode_digits(digits) ==
    IF digits = <<>>
    THEN Ok(<<>>)
    ELSE IF Len(digits) = 1
    THEN Err("hex")
    ELSE LET rest == decode_digits(SubSeq(digits, 3, Len(digits)))
         IN  IF rest.kind = "ok"
             THEN Ok(<<16 * digits[1] + digits[2]>> \o rest.value)
             ELSE rest

\* hex::decode and Bytes::from_hex of a text; a 0x prefix is skipped
decode(text) == decode_digits(text.digits)

\* the bytes of an H256 holding a word of the model: one byte
HashBytes(value) == <<value>>

\* the text a method stores in the cache for the value the RPC returned:
\* {:x} of a U256 is its shortest hexadecimal form, {:x} of Bytes is 0x and
\* the digits of the bytes, {:x} of an H256 the digits of all its bytes, and
\* a block is stored as the JSON of the optional block, which is null
\* (None) when the chain has no such block
Stored(method, value) ==
    CASE method \in {"eth_getTransactionCount", "eth_getBalance"} -> ToHex(value)
      [] method = "eth_getCode" -> HexText(TRUE, encode(value))
      [] method = "eth_getStorageAt" -> HexText(FALSE, encode(HashBytes(value)))
      [] method = "eth_getBlockByNumber" -> [json |-> value]

\* what a method makes of the text it finds in the cache; every conversion
\* is unwrapped, and the JSON is read as a block, which null is not
Loaded(method, text) ==
    CASE method \in {"eth_getTransactionCount", "eth_getBalance"} ->
            Ok(from_str_radix(text))
      [] method = "eth_getCode" ->
            LET bytes == decode(text)
            IN  IF bytes.kind = "ok" THEN bytes ELSE Panic("unwrap")
      [] method = "eth_getStorageAt" ->
            LET bytes == decode(text)
            IN  IF bytes.kind = "ok" /\ Len(bytes.value) = 1
                THEN Ok(bytes.value[1])
                ELSE Panic("unwrap")
      [] method = "eth_getBlockByNumber" ->
            IF text.json = None THEN Panic("unwrap") ELSE Ok(text.json)

\* the blocks of the chain the endpoint serves
ChainBlocks == {0, 1}

\* what the RPC endpoint answers
Rpc(method, address, slot) ==
    CASE method = "eth_getTransactionCount" -> RemoteNonce(address)
      [] method = "eth_getBalance" -> RemoteBalance(address)
      [] method = "eth_getCode" -> RemoteCode(address)
      [] method = "eth_getStorageAt" -> RemoteStorage(address, slot)
      [] method = "eth_getBlockByNumber" ->
            IF slot \in ChainBlocks THEN Some(RemoteBlockHash(slot)) ELSE None

\* the key of a cached response: chain, block, api and request hash
CacheKey(block, api, request_hash) ==
    [chain |-> "eth", block |-> block, api |-> api, request_hash |-> request_hash]

\* get_transaction_count, get_balance, get_code and get_storage_at: the
\* cache is read and written only when a block number is given, and a
\* failure to store is returned as the error of the method.  io says
\* whether the cache read, the RPC call and the cache store succeed
cached_request(stored, method, address, slot, block_number, io) ==
    LET key == CacheKey(IF block_number = None THEN 0 ELSE block_number[1],
                        method, <<address, slot>>)
        hit == block_number # None /\ key \in DOMAIN stored /\ io.read
        value == Rpc(method, address, slot)
    IN  IF hit
        THEN [ret |-> Loaded(method, stored[key]), cache |-> stored, rpc |-> FALSE]
        ELSE IF ~io.rpc
        THEN [ret |-> Err("rpc"), cache |-> stored, rpc |-> TRUE]
        ELSE IF block_number = None
        THEN [ret |-> Ok(value), cache |-> stored, rpc |-> TRUE]
        ELSE IF ~io.store
        THEN [ret |-> Err("cache store"), cache |-> stored, rpc |-> TRUE]
        ELSE [ret |-> Ok(value), cache |-> Put(stored, key, Stored(method, value)),
              rpc |-> TRUE]

\* ForkProvider::get_block: the cache is always read and written, and a
\* failure to store is dropped
get_block(stored, block_number, io) ==
    LET method == "eth_getBlockByNumber"
        key == CacheKey(block_number, method, <<0, block_number>>)
        hit == key \in DOMAIN stored /\ io.read
        block == Rpc(method, 0, block_number)
    IN  IF hit
        THEN [ret |-> Loaded(method, stored[key]), cache |-> stored, rpc |-> FALSE]
        ELSE IF ~io.rpc
        THEN [ret |-> Err("rpc"), cache |-> stored, rpc |-> TRUE]
        ELSE [ret |-> Ok(block),
              cache |-> IF io.store THEN Put(stored, key, Stored(method, block))
                        ELSE stored,
              rpc |-> TRUE]

\* a method of the provider has been called
ProviderOp(method, address, slot, r) ==
    /\ tx_count < ForkOps
    /\ tx_count' = tx_count + 1
    /\ cache' = r.cache
    /\ ret' = Returned(method, <<address, slot>>, r.ret)
    /\ provider_log' = IF r.rpc THEN Append(provider_log, Request(method, address, slot))
                       ELSE provider_log
    /\ UNCHANGED <<bug_inspector, db, journal, tx, interp, response, fault, tx_ops,
                   deploys, tx_config, added, chain, snapshots, call_depth,
                   log_inspector, frames, global_snapshot, tx_gas_limit>>

GetTransactionCount(address, block_number, io) ==
    ProviderOp("eth_getTransactionCount", address, 0,
               cached_request(cache, "eth_getTransactionCount", address, 0,
                              block_number, io))

GetBalance(address, block_number, io) ==
    ProviderOp("eth_getBalance", address, 0,
               cached_request(cache, "eth_getBalance", address, 0, block_number, io))

GetCode(address, block_number, io) ==
    ProviderOp("eth_getCode", address, 0,
               cached_request(cache, "eth_getCode", address, 0, block_number, io))

GetStorageAt(address, index, block_number, io) ==
    ProviderOp("eth_getStorageAt", address, index,
               cached_request(cache, "eth_getStorageAt", address, index,
                              block_number, io))

GetBlock(block_number, io) ==
    ProviderOp("eth_getBlockByNumber", 0, block_number,
               get_block(cache, block_number, io))

\* the cache read, the RPC call and the cache store each succeed or fail
IO == [read : BOOLEAN, rpc : BOOLEAN, store : BOOLEAN]

BlockNumbers == {None, Some(1)}

NextProvider ==
    \/ \E a \in {1, 2}, b \in BlockNumbers, io \in IO : GetTransactionCount(a, b, io)
    \/ \E a \in {1, 2}, b \in BlockNumbers, io \in IO : GetBalance(a, b, io)
    \/ \E a \in {1, 2}, b \in BlockNumbers, io \in IO : GetCode(a, b, io)
    \/ \E a \in {1, 2}, b \in BlockNumbers, io \in IO : GetStorageAt(a, 1, b, io)
    \/ \E n \in {1, 2}, io \in IO : GetBlock(n, io)

SpecProvider == InitFork /\ [][NextProvider]_vars

\* C20 as stated: a caching method that reached the RPC endpoint fails only
\* when the RPC call fails: neither a failing cache store nor a failing
\* cache read makes it return an error.
C20_BestEffortCache ==
    [][tx_count' # tx_count =>
          (ret'.kind = "err" => ret'.value = "rpc")]_vars

(***************************************************************************)
(* common.rs : conversions between BigInt and U256.  A byte of the model   *)
(* holds one bit, so that a word has WordBits bytes where U256 has 32      *)
(***************************************************************************)
WordBytes == WordBits

\* the magnitude of n, most significant byte first, without leading zeros
RECURSIVE Magnitude(_)
Magnitude(n) == IF n < 2 THEN <<n>> ELSE Append(Magnitude(n \div 2), n % 2)

\* BigInt::to_bytes_be
to_bytes_be(b) ==
    [sign |-> IF b < 0 THEN "Minus" ELSE IF b = 0 THEN "NoSign" ELSE "Plus",
     bytes |-> Magnitude(IF b < 0 THEN 0 - b ELSE b)]

\* U256::from_be_slice
RECURSIVE from_be_slice(_)
from_be_slice(bytes) ==
    IF bytes = <<>>
    THEN 0
    ELSE 2 * from_be_slice(SubSeq(bytes, 1, Len(bytes) - 1)) + bytes[Len(bytes)]

\* U256::as_le_bytes
as_le_bytes(u) == [i \in 1..WordBytes |-> (u \div 2^(i - 1)) % 2]

\* BigInt::from_bytes_le with Sign::Plus
RECURSIVE from_bytes_le(_)
from_bytes_le(bytes) ==
    IF bytes = <<>> THEN 0 ELSE bytes[1] + 2 * from_bytes_le(Tail(bytes))

ruint_u256_to_bigint(u) == from_bytes_le(as_le_bytes(u))

\* bigint_to_ruint_u256: the slice bytes[..32] of a shorter magnitude is out
\* of range, which panics
bigint_to_ruint_u256(b) ==
    LET be == to_bytes_be(b)
    IN  IF be.sign = "Minus"
        THEN Err("BigInt is negative")
        ELSE IF Len(be.bytes) < WordBytes
        THEN Panic("range end index out of range for slice")
        ELSE Ok(from_be_slice(SubSeq(be.bytes, 1, WordBytes)))

(***************************************************************************)
(* lib.rs : per-account and global snapshots, and the storage and balance  *)
(* accessors of the facade                                                 *)
(***************************************************************************)
\* copy_snapshot writing an empty account when there is no snapshot
CopySnapshot_or_default(from, to) ==
    /\ IF from \in DOMAIN snapshots
       THEN ForkOp("copy_snapshot", <<from, to>>,
                   [db EXCEPT !.accounts = Put(@, to, snapshots[from])], Ok(0), <<>>)
       ELSE ForkOp("copy_snapshot", <<from, to>>,
                   [db EXCEPT !.accounts = Put(@, to, DefaultDbAccount)],
                   Err("No snapshot found"), <<>>)
    /\ UNCHANGED snapshots

\* TinyEVM::copy_snapshot
CopySnapshot(from, to) ==
    /\ IF from \in DOMAIN snapshots
       THEN ForkOp("copy_snapshot", <<from, to>>,
                   [db EXCEPT !.accounts = Put(@, to, snapshots[from])], Ok(0), <<>>)
       ELSE ForkOp("copy_snapshot", <<from, to>>, db, Err("No snapshot found"), <<>>)
    /\ UNCHANGED snapshots

\* the ids Uuid::new_v4 can draw, and a text that is no uuid
Uuids == {"6fa4", "b21c"}
SnapshotIds == Uuids \cup {"latest"}

\* Uuid::parse_str
parse_str(text) == IF text \in Uuids THEN Ok(text) ELSE Err("invalid uuid")

\* an operation of the facade on the database and the global snapshots
GlobalOp(op, args, after, kept, result) ==
    /\ tx_count < ForkOps
    /\ tx_count' = tx_count + 1
    /\ db' = after
    /\ global_snapshot' = kept
    /\ ret' = Returned(op, args, result)
    /\ UNCHANGED <<bug_inspector, journal, tx, interp, response, fault, tx_ops,
                   deploys, tx_config, added, chain, snapshots, call_depth,
                   log_inspector, provider_log, frames, cache, tx_gas_limit>>

\* TinyEVM::take_global_snapshot; id is the uuid drawn, which no snapshot
\* carries yet
TakeGlobalSnapshot(id) ==
    /\ id \notin DOMAIN global_snapshot
    /\ GlobalOp("take_global_snapshot", <<>>, db, Put(global_snapshot, id, db), Ok(id))

\* restore_global_snapshot dropping the snapshot whatever keep_snapshot says
RestoreGlobalSnapshot_consuming(snapshot_id, keep_snapshot) ==
    LET id == parse_str(snapshot_id)
        args == <<snapshot_id, keep_snapshot>>
    IN  IF id.kind # "ok" \/ id.value \notin DOMAIN global_snapshot
        THEN GlobalOp("restore_global_snapshot", args, db, global_snapshot,
                      Err("No snapshot found"))
        ELSE GlobalOp("restore_global_snapshot", args, global_snapshot[id.value],
                      Remove(global_snapshot, id.value), Ok(0))

\* TinyEVM::restore_global_snapshot
RestoreGlobalSnapshot(snapshot_id, keep_snapshot) ==
    LET id == parse_str(snapshot_id)
        args == <<snapshot_id, keep_snapshot>>
    IN  IF id.kind # "ok"
        THEN GlobalOp("restore_global_snapshot", args, db, global_snapshot, id)
        ELSE IF id.value \notin DOMAIN global_snapshot
        THEN GlobalOp("restore_global_snapshot", args, db, global_snapshot,
                      Err("No snapshot found"))
        ELSE IF keep_snapshot
        THEN GlobalOp("restore_global_snapshot", args, global_snapshot[id.value],
                      global_snapshot, Ok(0))
        ELSE GlobalOp("restore_global_snapshot", args, global_snapshot[id.value],
                      Remove(global_snapshot, id.value), Ok(0))

\* TinyEVM::set_storage
SetStorage(addr, index, value, up) ==
    /\ LET r == insert_account_storage(db, addr, index, value, call_depth, up)
       IN  ForkOp("set_storage", <<addr, index, value>>, r.db, r.ret, r.requests)
    /\ UNCHANGED snapshots

\* TinyEVM::get_storage
get_storage(fdb, addr, index) ==
    IF addr \notin DOMAIN fdb.accounts
    THEN Err("Failed to get account for address")
    ELSE IF index \in DOMAIN fdb.accounts[addr].storage
    THEN Ok(ruint_u256_to_bigint(fdb.accounts[addr].storage[index]))
    ELSE Ok(ruint_u256_to_bigint(0))

\* TinyEVM::get_balance
get_balance(fdb, addr) ==
    IF addr \in DOMAIN fdb.accounts
    THEN Ok(ruint_u256_to_bigint(fdb.accounts[addr].info.balance))
    ELSE Ok(ruint_u256_to_bigint(0))

\* TinyEVM::set_balance
SetBalance(addr, balance) ==
    /\ LET u == bigint_to_ruint_u256(balance)
       IN  IF u.kind = "ok"
           THEN ForkOp("set_balance", <<addr, balance>>,
                       set_account_balance(db, addr, u.value), Ok(0), <<>>)
           ELSE ForkOp("set_balance", <<addr, balance>>, db, u, <<>>)
    /\ UNCHANGED snapshots

\* the accounts and the balances the snapshot specification works on
SnapAddrs == {ZeroAddress, 1}
BigInts == {0 - 1, 1, UMax, UMax + 1}

\* the account a transaction of the snapshot specification commits
CommittedAccount ==
    JournalAccount(AccountInfo(1, 1, Keccak256(<<2>>), <<2>>), Put(EmptyMap, 0, 1),
                   {"Touched"})

NextSnap ==
    \/ \E a \in SnapAddrs : SetAccountBalance(a, 1)
    \/ \E a \in SnapAddrs, up \in BOOLEAN : SetStorage(a, 0, 1, up)
    \/ \E a \in SnapAddrs, up \in BOOLEAN : ResetStorage(a, up)
    \/ \E a \in SnapAddrs : NukeAccount(a)
    \/ \E a \in SnapAddrs : Commit(a, CommittedAccount)
    \/ \E a \in SnapAddrs : TakeSnapshot(a)
    \/ \E a \in SnapAddrs : RestoreSnapshot(a)
    \/ \E from \in SnapAddrs, to \in SnapAddrs : CopySnapshot(from, to)
    \/ \E id \in Uuids : TakeGlobalSnapshot(id)
    \/ \E id \in SnapshotIds, keep \in BOOLEAN : RestoreGlobalSnapshot(id, keep)
    \/ \E a \in SnapAddrs, v \in BigInts : SetBalance(a, v)

SpecSnap == InitFork /\ [][NextSnap]_vars

\* an operation has returned
Called(op) == tx_count' # tx_count /\ ret'.op = op

\* C21: take_snapshot(a) of an account of the database stores the account
\* record (info, storage, account_state) as it is; no other operation,
\* whatever it does to a, touches the stored record; restore_snapshot(a)
\* succeeds whenever a snapshot of a is stored, makes the record of a equal
\* to the stored one and keeps the snapshot, so that it can be repeated.
C21_SnapshotRestore ==
    [][/\ Called("take_snapshot") /\ ret'.args[1] \in DOMAIN db.accounts
          => /\ ret'.kind = "ok"
             /\ snapshots' = Put(snapshots, ret'.args[1], db.accounts[ret'.args[1]])
             /\ db' = db
       /\ tx_count' # tx_count /\ ret'.op # "take_snapshot"
          => snapshots' = snapshots
       /\ Called("restore_snapshot") /\ ret'.args[1] \in DOMAIN snapshots
          => /\ ret'.kind = "ok"
             /\ db'.accounts = Put(db.accounts, ret'.args[1], snapshots[ret'.args[1]])
             /\ snapshots' = snapshots]_vars

\* the owner's account was snapshotted, a committed transaction then gave
\* it code, and the restore has put the owner's record back
C21_Witness ==
    /\ ret.op = "restore_snapshot" /\ ret.kind = "ok" /\ ret.args = <<ZeroAddress>>
    /\ Keccak256(<<2>>) \in DOMAIN db.contracts
    /\ DOMAIN db.accounts = {ZeroAddress}
    /\ db.accounts[ZeroAddress] = snapshots[ZeroAddress]
    /\ db.accounts[ZeroAddress].info = OwnerInfo

\* C22: take_global_snapshot stores the whole database under a new id and
\* leaves the database alone; no operation but a consuming restore changes
\* a stored snapshot; restore_global_snapshot(u, keep = true) of a stored u
\* makes the database (accounts, contracts, block_hashes, remote_addresses,
\* ignored_addresses, fork_enabled) equal to the stored one and keeps every
\* snapshot, so that it can be repeated; with keep = false it installs the
\* same database and removes u, after which a restore of u fails with
\* 'No snapshot found'.
C22_GlobalSnapshot ==
    [][/\ Called("take_global_snapshot")
          => /\ ret'.kind = "ok"
             /\ ret'.value \notin DOMAIN global_snapshot
             /\ global_snapshot' = Put(global_snapshot, ret'.value, db)
             /\ db' = db
       /\ tx_count' # tx_count
          /\ ret'.op \notin {"take_global_snapshot", "restore_global_snapshot"}
          => global_snapshot' = global_snapshot
       /\ Called("restore_global_snapshot")
          => LET u == ret'.args[1]
                 keep == ret'.args[2]
             IN  /\ u \in DOMAIN global_snapshot /\ keep
                    => /\ ret'.kind = "ok"
                       /\ db' = global_snapshot[u]
                       /\ global_snapshot' = global_snapshot
                 /\ u \in DOMAIN global_snapshot /\ ~keep
                    => /\ ret'.kind = "ok"
                       /\ db' = global_snapshot[u]
                       /\ global_snapshot' = Remove(global_snapshot, u)
                 /\ u \in Uuids \ DOMAIN global_snapshot
                    => /\ ret'.kind = "err" /\ ret'.value = "No snapshot found"
                       /\ db' = db]_vars

\* a global snapshot was taken of the forking database, a storage write
\* then fetched address 1 from the chain into the database, and the
\* keeping restore has put the database back
C22_Witness ==
    /\ ret.op = "restore_global_snapshot" /\ ret.kind = "ok"
    /\ ret.args = <<"6fa4", TRUE>>
    /\ Len(provider_log) = 3
    /\ db = global_snapshot["6fa4"]
    /\ 1 \notin DOMAIN db.accounts
    /\ db.remote_addresses = EmptyMap

\* the operation failed with 'No snapshot found' and changed neither the
\* database nor the snapshots
NoSnapshotFound ==
    /\ ret'.kind = "err" /\ ret'.value = "No snapshot found"
    /\ db' = db
    /\ snapshots' = snapshots
    /\ global_snapshot' = global_snapshot

\* C23: restore_snapshot(a) and copy_snapshot(a, dst) for an address a
\* without a snapshot, and restore_global_snapshot(u, keep) for a uuid u
\* that names no global snapshot, return the error 'No snapshot found' and
\* leave the accounts of the database, the per-account snapshots and the
\* global snapshots as they were.
C23_NoSnapshot ==
    [][/\ Called("restore_snapshot") /\ ret'.args[1] \notin DOMAIN snapshots
          => NoSnapshotFound
       /\ Called("copy_snapshot") /\ ret'.args[1] \notin DOMAIN snapshots
          => NoSnapshotFound
       /\ Called("restore_global_snapshot")
          /\ ret'.args[1] \in Uuids \ DOMAIN global_snapshot
          => NoSnapshotFound]_vars

\* a consuming restore of an unknown id has failed while another global
\* snapshot and a per-account snapshot are stored
C23_Witness ==
    /\ ret.op = "restore_global_snapshot" /\ ret.args = <<"b21c", FALSE>>
    /\ ret.kind = "err" /\ ret.value = "No snapshot found"
    /\ DOMAIN global_snapshot = {"6fa4"}
    /\ DOMAIN snapshots = {ZeroAddress}

\* C24: set_storage(a, i, v) leaves a in the database with v readable at
\* slot i; reset_storage(a) of an account of the database succeeds without
\* a provider request, after it get_storage(a, i) returns 0 for every slot
\* i, the info of the account (balance, nonce, code) is what it was, and
\* the account is marked StorageCleared.
C24_ResetStorage ==
    [][/\ Called("set_storage") /\ ret'.kind = "ok"
          => /\ ret'.args[1] \in DOMAIN db'.accounts
             /\ get_storage(db', ret'.args[1], ret'.args[2])
                   = Ok(ruint_u256_to_bigint(ret'.args[3]))
       /\ Called("reset_storage") /\ ret'.args[1] \in DOMAIN db.accounts
          => LET a == ret'.args[1]
             IN  /\ ret'.kind = "ok"
                 /\ provider_log' = provider_log
                 /\ \A i \in Words : get_storage(db', a, i) = Ok(0)
                 /\ db'.accounts[a].info = db.accounts[a].info
                 /\ db'.accounts[a].account_state = "StorageCleared"]_vars

\* the owner's slot 0 was written and snapshotted before the owner's
\* storage was reset
C24_Witness ==
    /\ ret.op = "reset_storage" /\ ret.kind = "ok" /\ ret.args = <<ZeroAddress>>
    /\ ZeroAddress \in DOMAIN snapshots
    /\ snapshots[ZeroAddress].storage = Put(EmptyMap, 0, 1)
    /\ db.accounts[ZeroAddress].storage = EmptyMap
    /\ db.accounts[ZeroAddress].info = OwnerInfo

\* C25 as stated: set_balance(a, v) with 0 <= v < 2^256 succeeds, and
\* get_balance(a) then returns v, whether or not a was in the database;
\* with a negative v it returns an error.
C25_SetBalance ==
    [][Called("set_balance")
          => LET a == ret'.args[1]
                 v == ret'.args[2]
             IN  /\ 0 <= v /\ v <= UMax
                    => ret'.kind = "ok" /\ get_balance(db', a) = Ok(v)
                 /\ v < 0 => ret'.kind = "err"]_vars

(***************************************************************************)
(* add_bug under either setting of instrument_config.heuristics            *)
(***************************************************************************)
InitAddBug ==
    /\ \E n \in {0, PreFill}, heuristics \in BOOLEAN :
          /\ bug_inspector = [Filled(n) EXCEPT !.instrument_config.heuristics = heuristics]
          /\ added = [k \in 1..n |-> LoopBug(k)]
          /\ tx_config = [DefaultInstrumentConfig EXCEPT !.heuristics = heuristics]
    /\ db = insert_account_info(DefaultForkDB, ZeroAddress, OwnerInfo)
    /\ journal = Put(EmptyMap, ZeroAddress, BumpedCaller(db, ZeroAddress))
    /\ tx = [IdleTx EXCEPT !.phase = "exec", !.kind = "call", !.address = 1]
    /\ interp = IdleInterp
    /\ response = NoResponse
    /\ fault = FALSE
    /\ tx_count = 1
    /\ tx_ops = <<>>
    /\ deploys = <<>>
    /\ chain = IdleChain
    /\ snapshots = EmptyMap
    /\ call_depth = 0
    /\ log_inspector = DefaultLogInspector
    /\ provider_log = <<>>
    /\ ret = NoReturn
    /\ frames = <<>>
    /\ cache = EmptyMap
    /\ global_snapshot = EmptyMap
    /\ tx_gas_limit = TX_GAS_LIMIT

SpecAddBug == InitAddBug /\ [][NextCap]_vars

\* the bug the add_bug call of this step was handed
BugAdded == added'[Len(added')]

\* C26: add_bug with a Jumpi bug leaves bug_data alone; with heuristics on
\* it appends the target to coverage (dropping the oldest entry of a full
\* buffer) and changes nothing else, with heuristics off it changes nothing
\* at all; bug_data never holds a Jumpi entry.
C26_JumpiBug ==
    /\ [][added' # added /\ IsJumpi(BugAdded)
             => /\ bug_inspector'.bug_data = bug_inspector.bug_data
                /\ bug_inspector' =
                      IF bug_inspector.instrument_config.heuristics
                      THEN [bug_inspector EXCEPT !.heuristics.coverage =
                               LastN(Append(@, BugAdded.bug_type.x), CoverageCap)]
                      ELSE bug_inspector]_vars
    /\ [](\A i \in 1..Len(bug_inspector.bug_data) : ~IsJumpi(bug_inspector.bug_data[i]))

\* with heuristics off, a Jumpi bug was handed to add_bug after a storage
\* bug, and coverage is still empty
C26_Witness ==
    /\ ~bug_inspector.instrument_config.heuristics
    /\ Len(added) = 2
    /\ IsStorage(added[1]) /\ IsJumpi(added[2])
    /\ bug_inspector.heuristics.coverage = <<>>
    /\ Len(bug_inspector.bug_data) = 1

(***************************************************************************)
(* Branch recording under record_branch_for_target_only                    *)
(***************************************************************************)
TargetOnly == bug_inspector.instrument_config.record_branch_for_target_only

\* the step_end hook of a JUMPI returns in this step
JumpiEnd ==
    /\ tx.phase = "exec" /\ interp.phase = "executed"
    /\ bug_inspector.opcode = "JUMPI"
    /\ interp'.phase = "fetch"

\* the JUMPIs the target contract has executed in the running transaction,
\* and the program counters they went to
TargetJumpis ==
    SelectSeq(Completed,
              LAMBDA i : /\ i.op = "JUMPI"
                         /\ i.address = bug_inspector.instrument_config.target_address)
TargetsTaken ==
    [k \in 1..Len(TargetJumpis) |->
        IF TargetJumpis[k].stack[2] # 0
        THEN TargetJumpis[k].stack[1]
        ELSE TargetJumpis[k].pc + 1]

\* C27: with record_branch_for_target_only on, the step_end of a JUMPI of a
\* contract other than target_address leaves missed_branches and coverage
\* as they are; in a transaction run with the option on, coverage is the
\* targets of the JUMPIs the target contract executed, a missed branch is
\* there only if the target contract executed a JUMPI, and every missed
\* branch has address_index 0.
C27_TargetOnly ==
    /\ [][JumpiEnd /\ TargetOnly
          /\ interp.address # bug_inspector.instrument_config.target_address
             => /\ bug_inspector'.heuristics.missed_branches
                      = bug_inspector.heuristics.missed_branches
                /\ bug_inspector'.heuristics.coverage
                      = bug_inspector.heuristics.coverage]_vars
    /\ [](tx.phase = "exec" /\ TargetOnly
             => /\ bug_inspector.heuristics.coverage = TargetsTaken
                /\ bug_inspector.heuristics.missed_branches # <<>>
                      => TargetJumpis # <<>>
                /\ \A i \in 1..Len(bug_inspector.heuristics.missed_branches) :
                      bug_inspector.heuristics.missed_branches[i].address_index = 0)

\* with the option on, a JUMPI of another contract and then one of the
\* target contract have been executed: only the second was recorded
C27_Witness ==
    /\ tx.phase = "exec" /\ interp.phase = "fetch" /\ TargetOnly
    /\ Len(tx_ops) = 2
    /\ tx_ops[1].op = "JUMPI" /\ tx_ops[2].op = "JUMPI"
    /\ tx_ops[1].address # bug_inspector.instrument_config.target_address
    /\ tx_ops[2].address = bug_inspector.instrument_config.target_address
    /\ Len(bug_inspector.heuristics.missed_branches) = 1
    /\ Len(bug_inspector.heuristics.coverage) = 1

(***************************************************************************)
(* The distance specification: calls that execute comparisons of every     *)
(* kind and conditional jumps                                              *)
(***************************************************************************)
DistanceInstrs ==
    {Instr("LT", 0, <<0, 1>>, 1, 0, 0), Instr("GT", 0, <<2, 0>>, 1, 0, 0),
     Instr("SLT", 0, <<0, 3>>, 1, 0, 0), Instr("SGT", 0, <<5, 0>>, 1, 0, 0),
     Instr("EQ", 0, <<0, 5>>, 1, 0, 0)}
    \cup {Instr("JUMPI", 1, <<dest, 1>>, 1, 0, 0) : dest \in {1, 2}}

NextDistance ==
    \/ ContractCallHelperBegin(1, ZeroAddress, None)
    \/ StepHook(DistanceInstrs, BranchSteps)
    \/ StepEndHook
    \/ ContractCallHelperEnd

SpecDistance == Init /\ [][NextDistance]_vars

IsComparison(i) == i.op \in {"LT", "GT", "SLT", "SGT", "EQ"}

\* the index of the last comparison, and of the last JUMPI, among the
\* opcodes the transaction completed (0 when there is none)
LastComparison ==
    IF \E k \in 1..Len(Completed) : IsComparison(Completed[k])
    THEN CHOOSE k \in 1..Len(Completed) :
            /\ IsComparison(Completed[k])
            /\ \A l \in (k + 1)..Len(Completed) : ~IsComparison(Completed[l])
    ELSE 0
LastJumpi ==
    IF \E k \in 1..Len(Completed) : Completed[k].op = "JUMPI"
    THEN CHOOSE k \in 1..Len(Completed) :
            /\ Completed[k].op = "JUMPI"
            /\ \A l \in (k + 1)..Len(Completed) : Completed[l].op # "JUMPI"
    ELSE 0

\* the distance the comparison at index k of the transaction computed
ComputedDistance(k) ==
    LET i == Completed[k]
    IN  Distance(i.op, i.stack[1], i.stack[2], Exec(i.op, i.stack, i.env))

\* C28 as stated: the missed branch recorded at a JUMPI to which the
\* peephole override does not apply carries the distance of the most recent
\* comparison of the transaction, if no JUMPI has been executed since that
\* comparison, and U256::MAX otherwise: a comparison's distance is used by
\* the next JUMPI only.
C28_DistanceConsumed ==
    [][JumpiEnd /\ ~possibly_if_equal(bug_inspector)
       /\ bug_inspector'.heuristics.missed_branches
             # bug_inspector.heuristics.missed_branches
          => LET recorded == bug_inspector'.heuristics.missed_branches
             IN  recorded[Len(recorded)].distance =
                    IF LastComparison = 0 \/ LastJumpi > LastComparison
                    THEN UMax
                    ELSE ComputedDistance(LastComparison)]_vars

(***************************************************************************)
(* The peephole specification: a call on an executor whose inspector has   *)
(* counted the steps of earlier transactions (step_index, last_index_sub   *)
(* and last_index_eq are never reset)                                      *)
(***************************************************************************)
\* <<step_index, last_index_sub, last_index_eq>> after the earlier steps:
\* none; twelve without SUB or EQ; a SUB, or an EQ and a SUB, at the
\* places where the two comparisons of possibly_if_equal turn
PriorSteps ==
    {<<0, 0, 0>>,
     <<PeepholeWindow + 2, 0, 0>>,
     <<PeepholeWindow + 2, PeepholeWindow + 1, 0>>,
     <<PeepholeWindow + 2, PeepholeWindow + 1, PeepholeWindow>>,
     <<PeepholeWindow + 2, 3, 0>>,
     <<PeepholeWindow + 2, 4, 0>>,
     <<PeepholeWindow + 2, 4, 2>>,
     <<PeepholeWindow + 2, 4, 3>>}

InitPeephole ==
    /\ \E prior \in PriorSteps :
          bug_inspector = [DefaultBugInspector EXCEPT !.step_index = prior[1],
                                                      !.last_index_sub = prior[2],
                                                      !.last_index_eq = prior[3]]
    /\ db = insert_account_info(DefaultForkDB, ZeroAddress, OwnerInfo)
    /\ journal = EmptyMap
    /\ tx = IdleTx
    /\ interp = IdleInterp
    /\ response = NoResponse
    /\ fault = FALSE
    /\ tx_count = 1
    /\ tx_ops = <<>>
    /\ deploys = <<>>
    /\ tx_config = DefaultInstrumentConfig
    /\ added = <<>>
    /\ chain = IdleChain
    /\ snapshots = EmptyMap
    /\ call_depth = 0
    /\ log_inspector = DefaultLogInspector
    /\ provider_log = <<>>
    /\ ret = NoReturn
    /\ frames = <<>>
    /\ cache = EmptyMap
    /\ global_snapshot = EmptyMap
    /\ tx_gas_limit = TX_GAS_LIMIT

\* the conditions a JUMPI finds: around zero, around MAX / 2, around the
\* half of the JUMPI arm, and MAX
Conditions ==
    {0, 1, UMax \div 2, UMax \div 2 + 1, PeepholeHalf, PeepholeHalf + 1, UMax}

PeepholeInstrs ==
    {Instr("SUB", 0, <<1, 1>>, 1, 0, 0), Instr("EQ", 0, <<0, 1>>, 1, 0, 0)}
    \cup {Instr("JUMPI", 1, <<1, cond>>, 1, 0, 0) : cond \in Conditions}

NextPeephole ==
    \/ ContractCallHelperBegin(1, ZeroAddress, None)
    \/ StepHook(PeepholeInstrs, BranchSteps)
    \/ StepEndHook
    \/ ContractCallHelperEnd

SpecPeephole == InitPeephole /\ [][NextPeephole]_vars

\* the step hook fires in this step
Stepping == tx.phase = "exec" /\ interp.phase = "fetch" /\ interp'.phase = "executed"

\* the distance the JUMPI arm of step_end writes when the override applies
Overridden(cond) == IF cond > PeepholeHalf THEN UMax - cond + 1 ELSE cond

\* C29: step_index counts the steps, last_index_sub and last_index_eq are
\* the values step_index had when step saw the most recent SUB and EQ, and
\* nothing else changes the three, the begin and the end of a transaction
\* included; at the step_end of a JUMPI (with its two operands) the
\* override is applied to heuristics.distance if step_index -
\* last_index_sub < 10 and step_index - last_index_eq > 10, and
\* heuristics.distance stays as it is otherwise.
C29_PeepholeWindow ==
    [][/\ Stepping
          => LET op == tx_ops'[Len(tx_ops')].op
             IN  /\ bug_inspector'.step_index = bug_inspector.step_index + 1
                 /\ bug_inspector'.last_index_sub =
                       IF op = "SUB" THEN bug_inspector.step_index
                       ELSE bug_inspector.last_index_sub
                 /\ bug_inspector'.last_index_eq =
                       IF op = "EQ" THEN bug_inspector.step_index
                       ELSE bug_inspector.last_index_eq
       /\ ~Stepping
          => /\ bug_inspector'.step_index = bug_inspector.step_index
             /\ bug_inspector'.last_index_sub = bug_inspector.last_index_sub
             /\ bug_inspector'.last_index_eq = bug_inspector.last_index_eq
       /\ JumpiEnd /\ Len(bug_inspector.inputs) >= 2
          => bug_inspector'.heuristics.distance =
                IF /\ bug_inspector.step_index - bug_inspector.last_index_sub
                         < PeepholeWindow
                   /\ bug_inspector.step_index - bug_inspector.last_index_eq
                         > PeepholeWindow
                THEN Overridden(bug_inspector.inputs[2])
                ELSE bug_inspector.heuristics.distance]_vars

\* the last step before this transaction was a SUB, no EQ was seen in the
\* ten steps before, and the JUMPI that opens the transaction has had its
\* distance overridden
C29_Witness ==
    /\ tx.phase = "exec" /\ interp.phase = "fetch"
    /\ Len(tx_ops) = 1 /\ tx_ops[1].op = "JUMPI" /\ tx_ops[1].stack[2] = UMax
    /\ bug_inspector.last_index_sub = PeepholeWindow + 1
    /\ bug_inspector.last_index_eq = 0
    /\ bug_inspector.step_index = PeepholeWindow + 3
    /\ bug_inspector.heuristics.distance = 1

\* C30 as stated: when the override applies at a JUMPI with condition cond,
\* heuristics.distance becomes MAX - cond + 1 if cond > MAX / 2 and cond
\* otherwise, for every cond.
C30_SignedDistance ==
    [][JumpiEnd /\ Len(bug_inspector.inputs) >= 2 /\ possibly_if_equal(bug_inspector)
          => LET cond == bug_inspector.inputs[2]
             IN  bug_inspector'.heuristics.distance =
                    IF cond > UMax \div 2 THEN UMax - cond + 1 ELSE cond]_vars

(***************************************************************************)
(* Account loads of a running transaction: the EVM reads accounts through  *)
(* Database::basic at the call depth the log inspector keeps, against a    *)
(* database with max_fork_depth 1, with and without a provider; between    *)
(* transactions forking is switched and accounts are removed               *)
(***************************************************************************)
BasicAddrs == {2, 3}

\* TinyEVM::new_instance with and without a fork url, with and without call
\* tracing, TINYEVM_MAX_FORK_DEPTH set to 1
InitBasic ==
    /\ bug_inspector = DefaultBugInspector
    /\ db \in {insert_account_info([base EXCEPT !.max_fork_depth = 1],
                                    ZeroAddress, OwnerInfo) :
                 base \in {DefaultForkDB, ForkedForkDB}}
    /\ journal = EmptyMap
    /\ tx = IdleTx
    /\ interp = IdleInterp
    /\ response = NoResponse
    /\ fault = FALSE
    /\ tx_count = 0
    /\ tx_ops = <<>>
    /\ deploys = <<>>
    /\ tx_config = DefaultInstrumentConfig
    /\ added = <<>>
    /\ chain = IdleChain
    /\ snapshots = EmptyMap
    /\ call_depth = 0
    /\ log_inspector \in {[DefaultLogInspector EXCEPT !.trace_enabled = enabled] :
                            enabled \in BOOLEAN}
    /\ provider_log = <<>>
    /\ ret = NoReturn
    /\ frames = <<>>
    /\ cache = EmptyMap
    /\ global_snapshot = EmptyMap
    /\ tx_gas_limit = TX_GAS_LIMIT

NextBasic ==
    \/ tx.phase = "idle" /\ \E enabled \in BOOLEAN : ToggleEnableFork(enabled)
    \/ tx.phase = "idle" /\ \E a \in BasicAddrs : NukeAccount(a)
    \/ ContractCallHelperBegin(1, ZeroAddress, None)
    \/ CallHook("Call", 2)
    \/ CallEndHook(CallOutcome("Return", <<1>>))
    \/ \E a \in BasicAddrs, up \in BOOLEAN : LoadAccountHook(a, up)
    \/ ContractCallHelperEnd

SpecBasic == InitBasic /\ [][NextBasic]_vars

\* basic(a) has just returned
BasicReturned(a) ==
    /\ tx_ops' = Append(tx_ops, Hook("basic", a))
    /\ ret'.op = "basic" /\ ret'.args = <<a>>

\* C31: basic(a) asks the provider only when a is absent from accounts,
\* forking is enabled and CALL_DEPTH does not exceed max_fork_depth; an
\* account in accounts is returned as it is, without a request and without a
\* change; with forking disabled an absent account is reported as not
\* existing and the database is unchanged; at an exceeded depth a is added to
\* ignored_addresses, reported as not existing and not installed; after a
\* successful fetch a is in accounts, so that while it stays there a later
\* read asks the provider nothing
C31_Basic ==
    [][\A a \in BasicAddrs : BasicReturned(a) =>
         /\ provider_log' # provider_log =>
               /\ a \notin DOMAIN db.accounts
               /\ db.fork_enabled
               /\ call_depth <= db.max_fork_depth
         /\ a \in DOMAIN db.accounts =>
               /\ ret'.kind = "ok"
               /\ ret'.value = Some(db.accounts[a].info)
               /\ db' = db
               /\ provider_log' = provider_log
         /\ (a \notin DOMAIN db.accounts /\ ~db.fork_enabled) =>
               /\ ret'.kind = "ok"
               /\ ret'.value = None
               /\ db' = db
         /\ (a \notin DOMAIN db.accounts /\ db.fork_enabled
               /\ call_depth > db.max_fork_depth) =>
               /\ ret'.kind = "ok"
               /\ ret'.value = None
               /\ a \in db'.ignored_addresses
               /\ db'.accounts = db.accounts
         /\ (ret'.kind = "ok" /\ provider_log' # provider_log) =>
               /\ a \in DOMAIN db'.accounts
               /\ ret'.value = Some(db'.accounts[a].info)]_vars

\* address 2 was fetched in the first transaction; in the second, inside a
\* nested call, address 3 was ignored and address 2 answered from accounts
C31_Witness ==
    /\ ret.op = "basic" /\ ret.args = <<2>> /\ ret.kind = "ok"
    /\ tx_count = 2 /\ Len(tx_ops) = 3 /\ call_depth = 2
    /\ tx_ops[3] = Hook("basic", 2)
    /\ 3 \in db.ignored_addresses
    /\ 2 \in DOMAIN db.accounts
    /\ Len(provider_log) = 3

(***************************************************************************)
(* Commits of batches of several accounts, between storage resets          *)
(***************************************************************************)
CommitAddrs == {1, 2}

\* the accounts of a batch: untouched, touched, newly created, self-destructed
BatchAccounts == { account \in JournalAccounts : account.info.code = <<>> }

\* DatabaseCommit::commit of a batch of accounts
CommitBatch(changes) ==
    /\ ForkOp("commit", <<changes>>, commit(db, changes), Ok(0), <<>>)
    /\ UNCHANGED snapshots

NextCommit ==
    \/ \E a \in CommitAddrs, up \in BOOLEAN : ResetStorage(a, up)
    \/ \E changes \in [CommitAddrs -> BatchAccounts] : CommitBatch(changes)

SpecCommit == InitFork /\ [][NextCommit]_vars

\* the account of the address is marked StorageCleared
StorageCleared(fdb, a) ==
    a \in DOMAIN fdb.accounts /\ fdb.accounts[a].account_state = "StorageCleared"

\* C32: in every commit, an account of the batch that is not touched is left
\* as it was; a touched self-destructed account gets empty storage, default
\* info and state NotExisting; a touched account that is newly created, or
\* was marked StorageCleared (by an earlier creation or by reset_storage)
\* and is not self-destructed, is StorageCleared afterwards; a touched
\* account that is neither created nor self-destructed and was not
\* StorageCleared becomes Touched
C32_StickyStorageCleared ==
    [][(ret'.op = "commit" /\ tx_count' # tx_count) =>
         \A a \in CommitAddrs :
            LET status == ret'.args[1][a].status
            IN  IF "Touched" \notin status
                THEN /\ (a \in DOMAIN db'.accounts) = (a \in DOMAIN db.accounts)
                     /\ a \in DOMAIN db.accounts => db'.accounts[a] = db.accounts[a]
                ELSE IF "SelfDestructed" \in status
                THEN db'.accounts[a] = [info |-> DefaultAccountInfo,
                                        account_state |-> "NotExisting",
                                        storage |-> EmptyMap]
                ELSE db'.accounts[a].account_state =
                        IF "Created" \in status \/ StorageCleared(db, a)
                        THEN "StorageCleared"
                        ELSE "Touched"]_vars

\* address 1 was marked StorageCleared by a reset or a creation; the third
\* operation is a commit that touches addresses 1 and 2 without creating
\* them: 1 is still StorageCleared, 2 is Touched
C32_Witness ==
    /\ ret.op = "commit" /\ tx_count = 3
    /\ ret.args[1][1].status = {"Touched"}
    /\ ret.args[1][2].status = {"Touched"}
    /\ StorageCleared(db, 1)
    /\ 2 \in DOMAIN db.accounts /\ db.accounts[2].account_state = "Touched"

(***************************************************************************)
(* Repeated requests to the caching methods of the provider                *)
(***************************************************************************)
\* the response to the request is in the cache for block 1 or, for a block,
\* for the block itself: cache is empty at first and gets an entry only from
\* a successful store after a successful RPC call
InCache(method, address, slot) ==
    CacheKey(IF method = "eth_getBlockByNumber" THEN slot ELSE 1, method,
             <<address, slot>>) \in DOMAIN cache

\* the step is a request answered with the value the endpoint holds, and no
\* RPC call was made
FromCache(method, address, slot) ==
    /\ ret'.kind = "ok"
    /\ ret'.value = Rpc(method, address, slot)
    /\ provider_log' = provider_log
    /\ cache' = cache

\* the step is a request that went to the endpoint and left the cache alone
Uncached(method, address, slot) ==
    /\ provider_log' = Append(provider_log, Request(method, address, slot))
    /\ cache' = cache

\* C33 as stated: a request with a block number whose response is in the
\* cache from an earlier successful request with the same arguments is
\* answered with the same value and without an RPC call, the cache being
\* readable; a request without a block number makes the RPC call and leaves
\* the cache as it is.
C33_CacheHit ==
    [][\A a \in {1, 2}, n \in {1, 2}, io \in IO :
         /\ (GetTransactionCount(a, Some(1), io) /\ io.read
                /\ InCache("eth_getTransactionCount", a, 0))
               => FromCache("eth_getTransactionCount", a, 0)
         /\ (GetBalance(a, Some(1), io) /\ io.read /\ InCache("eth_getBalance", a, 0))
               => FromCache("eth_getBalance", a, 0)
         /\ (GetCode(a, Some(1), io) /\ io.read /\ InCache("eth_getCode", a, 0))
               => FromCache("eth_getCode", a, 0)
         /\ (GetStorageAt(a, 1, Some(1), io) /\ io.read
                /\ InCache("eth_getStorageAt", a, 1))
               => FromCache("eth_getStorageAt", a, 1)
         /\ (GetBlock(n, io) /\ io.read /\ InCache("eth_getBlockByNumber", 0, n))
               => FromCache("eth_getBlockByNumber", 0, n)
         /\ GetTransactionCount(a, None, io) => Uncached("eth_getTransactionCount", a, 0)
         /\ GetBalance(a, None, io) => Uncached("eth_getBalance", a, 0)
         /\ GetCode(a, None, io) => Uncached("eth_getCode", a, 0)
         /\ GetStorageAt(a, 1, None, io) => Uncached("eth_getStorageAt", a, 1)]_vars

(***************************************************************************)
(* Program counters of deployments                                         *)
(***************************************************************************)
\* the program counters the opcodes of the last transaction ran at, each
\* with the contract it ran in
ExecutedPcs == { <<tx_ops[i].address, tx_ops[i].pc>> : i \in 1..Len(tx_ops) }

\* C34 as stated: when deploy_helper has returned, neither pcs_by_address of
\* the inspector nor seen_pcs of the Response holds a program counter the
\* deployment transaction executed.
C34_DeployPcs ==
    (tx.phase = "idle" /\ response.kind = "deploy") =>
        /\ ExecutedPcs \cap response.seen_pcs = {}
        /\ ExecutedPcs \cap bug_inspector.pcs_by_address = {}

(***************************************************************************)
(* Address indices: transactions whose opcodes run in two contracts, every *)
(* program counter belonging to one contract only                          *)
(***************************************************************************)
IndexInstrs ==
    {Instr("ORIGIN", a, <<>>, a, 0, 0) : a \in Contracts}
    \cup {Instr("JUMPI", 2 + a, <<1, 1>>, a, 0, 0) : a \in Contracts}

NextIndex ==
    \/ \E c \in Configs : Configure(c)
    \/ DeployHelperBegin(ZeroAddress, TheBytecode, None, None)
    \/ CreateEndHook
    \/ DeployHelperEnd
    \/ \E c \in Contracts : ContractCallHelperBegin(c, ZeroAddress, None)
    \/ ContractCallHelperEnd
    \/ StepHook(IndexInstrs, BranchSteps)
    \/ StepEndHook

SpecIndex == Init /\ [][NextIndex]_vars

\* idx is an index into the seen addresses of the Response, and the address
\* there is the contract that executed opcode op at pc in the transaction
IndexOfExecutor(idx, op, pc) ==
    LET seen == response.heuristics.seen_addresses
    IN  /\ idx \in 0..(Len(seen) - 1)
        /\ \E i \in 1..Len(tx_ops) :
              /\ tx_ops[i].op = op
              /\ tx_ops[i].pc = pc
              /\ tx_ops[i].address = seen[idx + 1]

\* C35: in the Response of every transaction, the address_index of every
\* bug and of every missed branch is an index into seen_addresses, and the
\* address at that index is the contract that executed the opcode the entry
\* comes from, with target-only filtering on and off
C35_AddressIndex ==
    response.kind \in {"deploy", "call"} =>
        /\ \A k \in 1..Len(response.bug_data) :
              LET bug == response.bug_data[k]
              IN  IndexOfExecutor(bug.address_index, bug.opcode, bug.position)
        /\ \A k \in 1..Len(response.heuristics.missed_branches) :
              LET missed == response.heuristics.missed_branches[k]
              IN  IndexOfExecutor(missed.address_index, "JUMPI", missed.prev_pc)

\* a call under target-only filtering with target 1 has returned: contract 2
\* ran first and left a bug with index 1, the target left a missed branch
\* with index 0
C35_Witness ==
    /\ response.kind = "call"
    /\ tx_config.record_branch_for_target_only /\ tx_config.target_address = 1
    /\ response.heuristics.seen_addresses = <<1, 2>>
    /\ Len(tx_ops) >= 2 /\ tx_ops[1].address = 2
    /\ \E k \in 1..Len(response.bug_data) : response.bug_data[k].address_index = 1
    /\ \E k \in 1..Len(response.heuristics.missed_branches) :
          response.heuristics.missed_branches[k].address_index = 0

(***************************************************************************)
(* Deployments with and without a forced address, with resets of accounts  *)
(* between them                                                            *)
(***************************************************************************)
\* TinyEVM::reset_account between two transactions, when it changes the
\* account
ResetAccountIdle(addr) ==
    /\ tx.phase = "idle"
    /\ reset_account(db, addr) # db
    /\ db' = reset_account(db, addr)
    /\ UNCHANGED <<bug_inspector, journal, tx, interp, response, fault, tx_count,
                   tx_ops, deploys, tx_config, added, chain, snapshots, call_depth,
                   log_inspector, provider_log, ret, frames, cache,
                   global_snapshot, tx_gas_limit>>

NextOverride ==
    \/ \E b \in Bytecodes, f \in {None} \cup {Some(r) : r \in ForceAddresses} :
          DeployHelperBegin(ZeroAddress, b, None, f)
    \/ CreateEndHook
    \/ DeployHelperEnd
    \/ \E a \in {ZeroAddress} \cup ForceAddresses : ResetAccountIdle(a)

SpecOverride == Init /\ [][NextOverride]_vars

\* C36 as stated: whatever deploys and account resets came before, a
\* deploy_helper call without force_address that succeeds reports the address
\* CREATE derives from the owner and the nonce it had when the call was made,
\* and leaves the code of the contract at that address.
C36_OverrideScope ==
    [][(/\ tx.kind = "deploy" /\ tx.phase = "done" /\ tx'.phase = "idle"
        /\ tx.force = None
        /\ response'.kind = "deploy" /\ response'.success)
       => /\ response'.data = Some(tx.address)
          /\ tx.address \in DOMAIN db'.accounts
          /\ db'.accounts[tx.address].info.code = tx.bytecode.runtime]_vars

(***************************************************************************)
(* Storage reads of a remote address whose storage was cleared locally     *)
(***************************************************************************)
\* the storage of the account was cleared locally: reset_storage and a
\* commit that creates the account mark it StorageCleared, a commit that
\* self-destructs it NotExisting
ClearedLocally(fdb, a) ==
    /\ a \in DOMAIN fdb.accounts
    /\ fdb.accounts[a].account_state \in {"StorageCleared", "NotExisting"}

\* C37 as stated: with forking enabled, a storage read of a remotely loaded
\* address whose storage was cleared locally, for a slot not written since,
\* returns zero and asks the provider nothing.
C37_ClearedStorage ==
    [][\A a \in ForkAddrs, slot \in ForkSlots :
         (/\ ret'.op = "storage" /\ ret'.args = <<a, slot>> /\ tx_count' # tx_count
          /\ db.fork_enabled
          /\ a \in DOMAIN db.remote_addresses
          /\ ClearedLocally(db, a)
          /\ ~SlotCached(db, a, slot))
         => /\ ret'.kind = "ok"
            /\ ret'.value = 0
            /\ provider_log' = provider_log]_vars

(***************************************************************************)
(* Operands wider than usize: a call that executes conditional jumps and   *)
(* calls whose destination and input size range over small and large words *)
(***************************************************************************)
OperandInstrs ==
    {Instr("JUMPI", 1, <<dest, cond>>, 1, 0, 0) : dest \in {1, UMax}, cond \in {0, 1}}
    \cup {Instr("CALL", 2, <<0, 2, 0, 0, in_len, 0, 0>>, 1, 1, 0) : in_len \in {1, UMax}}
    \cup {Instr("STATICCALL", 3, <<0, 2, 0, in_len, 0, 0>>, 1, 1, 0) :
             in_len \in {1, UMax}}

NextOperand ==
    \/ ContractCallHelperBegin(1, ZeroAddress, None)
    \/ ContractCallHelperEnd
    \/ StepHook(OperandInstrs, BranchSteps)
    \/ StepEndHook

SpecOperand == Init /\ [][NextOperand]_vars

\* step_end is returning for the opcode the interpreter has just executed
StepEndReturns == interp.phase = "executed" /\ interp'.phase = "fetch"

\* C38 as stated: step_end returns normally whatever the operands are; after
\* a JUMPI whose destination does not fit in usize the missed branches and
\* the coverage are as before.
C38_NoOperandFault ==
    [][StepEndReturns =>
          /\ ~fault'
          /\ (/\ bug_inspector.opcode = "JUMPI"
              /\ Len(bug_inspector.inputs) >= 2
              /\ bug_inspector.inputs[1] > UsizeMax)
             => /\ bug_inspector'.heuristics.missed_branches =
                      bug_inspector.heuristics.missed_branches
                /\ bug_inspector'.heuristics.coverage =
                      bug_inspector.heuristics.coverage]_vars

(***************************************************************************)
(* The default gas limit: deploys and calls with and without a gas limit   *)
(* argument, between assignments to tx_gas_limit                           *)
(***************************************************************************)
\* the values tx_gas_limit is set to, and the limits passed explicitly
GasLimits == {TX_GAS_LIMIT, 1000000}
GasArguments == {None, Some(21000)}

\* the setter of TinyEVM::tx_gas_limit (#[pyo3(get, set)])
SetTxGasLimit(limit) ==
    /\ tx.phase = "idle"
    /\ limit # tx_gas_limit
    /\ tx_gas_limit' = limit
    /\ UNCHANGED <<bug_inspector, db, journal, tx, interp, response, fault, tx_count,
                   tx_ops, deploys, tx_config, added, chain, snapshots, call_depth,
                   log_inspector, provider_log, ret, frames, cache, global_snapshot>>

NextGas ==
    \/ \E limit \in GasLimits : SetTxGasLimit(limit)
    \/ \E b \in Bytecodes, gas \in GasArguments :
          DeployHelperBegin(ZeroAddress, b, gas, None)
    \/ CreateEndHook
    \/ DeployHelperEnd
    \/ \E c \in Contracts, gas \in GasArguments :
          ContractCallHelperBegin(c, ZeroAddress, gas)
    \/ ContractCallHelperEnd

SpecGas == Init /\ [][NextGas]_vars

\* C39 as stated: a deploy and a call made without a gas limit argument run
\* with the tx_gas_limit of the executor, whatever it has been set to.
C39_DefaultGasLimit ==
    [][\A b \in Bytecodes, c \in Contracts :
         /\ DeployHelperBegin(ZeroAddress, b, None, None)
               => tx'.gas_limit = tx_gas_limit
         /\ ContractCallHelperBegin(c, ZeroAddress, None)
               => tx'.gas_limit = tx_gas_limit]_vars

====
